---- MODULE Spec2Model ----
(***************************************************************************)
(* Asset-optimization pipelines of hyperscape/scripts:                     *)
(*   bake-lod.py, decimate-vrm.py, optimize-avatars.py,                    *)
(*   decimate-vegetation.py.                                               *)
(* The decision layer (category inference, ratio/floor policy, loaders,    *)
(* derived-file guards, result aggregation) is modelled from the scripts;  *)
(* Blender (bpy) is the external engine, modelled by its contract at the   *)
(* call sites.                                                             *)
(*                                                                         *)
(* Strings are sequences of one-character strings, so that substring       *)
(* tests, lower-casing, stems and suffixes are computed, not assumed.      *)
(* Ratios are exact rationals <<numerator, denominator>>, denominator > 0. *)
(***************************************************************************)
EXTENDS Integers, Sequences, FiniteSets, TLC

VARIABLES
  pipeline,     \* which script runs: "bake", "vrm", "avatars", "veg"
  cfg,          \* its CONFIG after argument parsing
  fs0,          \* the file system before the first run
  fs,           \* the file system: path |-> content of the asset file
  manifest,     \* the lines of the --input-list file
  mode,         \* bake-lod input mode chosen by main()
  dirs,         \* directories still to be scanned
  phase,        \* "start", "items", "done", "crashed"
  queue,        \* work items still to be processed, in loader order
  results,      \* the results list of the run
  trace,        \* per handled work item: what was done with it
  scene,        \* the engine's current scene
  run,          \* 1 for the first run, 2 for the run repeated after it
  prevResults,  \* results of the first run
  prevReport,   \* summary of the first run
  report        \* summary of the run, <<>> until printed

vars == <<pipeline, cfg, fs0, fs, manifest, mode, dirs, phase, queue, results, trace,
          scene, run, prevResults, prevReport, report>>

(***************************************************************************)
(* Bounds of the model                                                     *)
(***************************************************************************)
MaxFiles == 2

MaxLines == 2

(***************************************************************************)
(* Strings                                                                 *)
(***************************************************************************)
Alphabet ==
  <<" ", "-", ".", "/", "0", "1", "2", "3", "4", "5", "6", "7", "8", "9",
    "A", "B", "C", "D", "E", "F", "G", "H", "I", "J", "K", "L", "M",
    "N", "O", "P", "Q", "R", "S", "T", "U", "V", "W", "X", "Y", "Z",
    "_",
    "a", "b", "c", "d", "e", "f", "g", "h", "i", "j", "k", "l", "m",
    "n", "o", "p", "q", "r", "s", "t", "u", "v", "w", "x", "y", "z",
    "|">>

Ord(c) ==
  LET index(a) == CHOOSE i \in 1..Len(a) : a[i] = c
  IN index(Alphabet)

IsUpper(c) ==
  LET between(o, lo, hi) == o >= lo /\ o <= hi
  IN between(Ord(c), Ord("A"), Ord("Z"))

LowerChar(c) ==
  LET shifted(a, o, upper, lower) == a[o + (lower - upper)]
  IN IF IsUpper(c) THEN shifted(Alphabet, Ord(c), Ord("A"), Ord("a")) ELSE c

Lower(s) == [i \in 1..Len(s) |-> LowerChar(s[i])]

Contains(s, sub) ==
  \E i \in 0..(Len(s) - Len(sub)) : SubSeq(s, i + 1, i + Len(sub)) = sub

EndsWith(s, suf) ==
  Len(s) >= Len(suf) /\ SubSeq(s, Len(s) - Len(suf) + 1, Len(s)) = suf

StartsWith(s, pre) == Len(s) >= Len(pre) /\ SubSeq(s, 1, Len(pre)) = pre

\* index of the last occurrence of character c in s, 0 when absent
LastIndexOf(s, c) ==
  IF \E i \in 1..Len(s) : s[i] = c
  THEN CHOOSE i \in 1..Len(s) : s[i] = c /\ \A j \in (i + 1)..Len(s) : s[j] # c
  ELSE 0

\* pathlib: Path.name, Path.stem, Path.parent
PathName(p) == SubSeq(p, LastIndexOf(p, "/") + 1, Len(p))

PathStem(p) ==
  LET name == PathName(p)
      dot  == LastIndexOf(name, ".")
  IN IF dot > 1 THEN SubSeq(name, 1, dot - 1) ELSE name

PathParent(p) == SubSeq(p, 1, LastIndexOf(p, "/") - 1)

Slash == <<"/">>

DotGlb == <<".", "g", "l", "b">>

DotVrm == <<".", "v", "r", "m">>

(***************************************************************************)
(* Rationals                                                               *)
(***************************************************************************)
Rat(n, d) == <<n, d>>

RatLT(a, b) == a[1] * b[2] < b[1] * a[2]

RatLE(a, b) == a[1] * b[2] <= b[1] * a[2]

RatEq(a, b) == a[1] * b[2] = b[1] * a[2]

RatMul(a, b) == <<a[1] * b[1], a[2] * b[2]>>

RatMax(a, b) == IF RatLE(a, b) THEN b ELSE a

\* Python int(n * r) for an integer n >= 0: truncation towards zero
IntMul(n, r) ==
  IF r[1] >= 0 THEN (n * r[1]) \div r[2] ELSE 0 - ((n * (0 - r[1])) \div r[2])

Zero == Rat(0, 1)

One == Rat(1, 1)

Max(a, b) == IF a >= b THEN a ELSE b

Min(a, b) == IF a <= b THEN a ELSE b

RECURSIVE SumSeq(_)
SumSeq(s) == IF s = <<>> THEN 0 ELSE Head(s) + SumSeq(Tail(s))

(***************************************************************************)
(* Engine (bpy) contract                                                   *)
(***************************************************************************)
\* directories the process cannot write to (mkdir / export raise there)
ReadOnlyDirs == { <<"/", "p", "/", "r", "o">> }

MeshObj(v) == [type |-> "MESH", verts |-> v, tris |-> 2 * v, keys |-> FALSE]

KeyedMeshObj(v) == [type |-> "MESH", verts |-> v, tris |-> 2 * v, keys |-> TRUE]

ArmatureObj == [type |-> "ARMATURE", verts |-> 0, tris |-> 0, keys |-> FALSE]

\* bpy.ops.object.modifier_apply of a DECIMATE/COLLAPSE modifier raises on a
\* mesh with shape keys
ModifierApplyRaises(obj) == obj.keys

\* collapse decimation of a mesh to `ratio` of its size
ModifierApply(obj, ratio) ==
  [obj EXCEPT !.verts = IntMul(obj.verts, ratio), !.tris = IntMul(obj.tris, ratio)]

ImportRaises(fsys, path) == fsys[path].corrupt

ExportRaises(path) == PathParent(path) \in ReadOnlyDirs

\* the engine's current scene: its objects and the image textures of its materials
Scene(objs, tex) == [objs |-> objs, tex |-> tex]

EmptyScene == Scene(<<>>, <<>>)

ClearCall == [op |-> "clear"]

ImportCall(path) == [op |-> "import", path |-> path]

ExportCall(path) == [op |-> "export", path |-> path]

DecimateCall(verts, ratio, nominal, floor) ==
  [op |-> "decimate", verts |-> verts, ratio |-> ratio, nominal |-> nominal, floor |-> floor]

(***************************************************************************)
(* bake-lod.py: policy tables and category inference                       *)
(***************************************************************************)
skip_threshold == 200

\* variant: grass keeps a tenth of its vertices
lod_ratios_grass_kept ==
  [tree |-> Rat(10, 100), bush |-> Rat(15, 100), rock |-> Rat(20, 100),
   fern |-> Rat(20, 100), flower |-> Rat(30, 100), grass |-> Rat(10, 100),
   mushroom |-> Rat(0, 100), ivy |-> Rat(25, 100), fallen |-> Rat(10, 100),
   default |-> Rat(15, 100)]

lod_ratios ==
  [tree |-> Rat(10, 100), bush |-> Rat(15, 100), rock |-> Rat(20, 100),
   fern |-> Rat(20, 100), flower |-> Rat(30, 100), grass |-> Rat(0, 100),
   mushroom |-> Rat(0, 100), ivy |-> Rat(25, 100), fallen |-> Rat(10, 100),
   default |-> Rat(15, 100)]

min_vertices ==
  [tree |-> 100, bush |-> 50, rock |-> 30, fern |-> 20, flower |-> 10,
   ivy |-> 20, fallen |-> 80, default |-> 50]

\* dict.get(key, fallback)
DictGet(d, key, fallback) == IF key \in DOMAIN d THEN d[key] ELSE fallback

L_lod1 == <<"l", "o", "d", "1">>

L_lod2 == <<"l", "o", "d", "2">>

lod2_ratio_factor == Rat(33, 100)

lod2_min_floor == 20

\* variant: 'fallen' is tested on its own, before 'tree'
infer_category_fallen_first(filepath) ==
  LET classify(path_str) ==
        IF Contains(path_str, <<"f", "a", "l", "l", "e", "n">>) THEN "fallen"
        ELSE IF Contains(path_str, <<"t", "r", "e", "e">>) THEN "tree"
        ELSE IF Contains(path_str, <<"b", "u", "s", "h">>) THEN "bush"
        ELSE IF Contains(path_str, <<"r", "o", "c", "k">>) THEN "rock"
        ELSE IF Contains(path_str, <<"f", "e", "r", "n">>) THEN "fern"
        ELSE IF Contains(path_str, <<"f", "l", "o", "w", "e", "r">>) THEN "flower"
        ELSE IF Contains(path_str, <<"g", "r", "a", "s", "s">>) THEN "grass"
        ELSE IF Contains(path_str, <<"m", "u", "s", "h", "r", "o", "o", "m">>) THEN "mushroom"
        ELSE IF Contains(path_str, <<"i", "v", "y">>) THEN "ivy"
        ELSE "default"
  IN classify(Lower(filepath))

infer_category(filepath) ==
  LET classify(path_str) ==
        IF Contains(path_str, <<"t", "r", "e", "e">>)
        THEN IF Contains(path_str, <<"f", "a", "l", "l", "e", "n">>) THEN "fallen" ELSE "tree"
        ELSE IF Contains(path_str, <<"b", "u", "s", "h">>) THEN "bush"
        ELSE IF Contains(path_str, <<"r", "o", "c", "k">>) THEN "rock"
        ELSE IF Contains(path_str, <<"f", "e", "r", "n">>) THEN "fern"
        ELSE IF Contains(path_str, <<"f", "l", "o", "w", "e", "r">>) THEN "flower"
        ELSE IF Contains(path_str, <<"g", "r", "a", "s", "s">>) THEN "grass"
        ELSE IF Contains(path_str, <<"m", "u", "s", "h", "r", "o", "o", "m">>) THEN "mushroom"
        ELSE IF Contains(path_str, <<"i", "v", "y">>) THEN "ivy"
        ELSE "default"
  IN classify(Lower(filepath))

get_lod_config(category) ==
  [ratio     |-> DictGet(lod_ratios, category, lod_ratios["default"]),
   min_verts |-> DictGet(min_vertices, category, min_vertices["default"])]

\* process_glb_file, lines 309-317: (ratio, min_verts) of one work item;
\* target_ratio is <<>> for None
\* variant: tier 2 takes half of the tier-1 ratio
resolve_policy_half_ratio(category, lod_level, target_ratio) ==
  IF target_ratio # <<>>
  THEN [ratio     |-> target_ratio,
        min_verts |-> DictGet(min_vertices, category, min_vertices["default"])]
  ELSE LET c == get_lod_config(category)
       IN IF lod_level = L_lod2
          THEN [ratio     |-> RatMul(c.ratio, Rat(1, 2)),
                min_verts |-> Max(lod2_min_floor, c.min_verts \div 2)]
          ELSE c

\* variant: tier 2 doubles the tier-1 floor
resolve_policy_double_floor(category, lod_level, target_ratio) ==
  IF target_ratio # <<>>
  THEN [ratio     |-> target_ratio,
        min_verts |-> DictGet(min_vertices, category, min_vertices["default"])]
  ELSE LET c == get_lod_config(category)
       IN IF lod_level = L_lod2
          THEN [ratio     |-> RatMul(c.ratio, lod2_ratio_factor),
                min_verts |-> Max(lod2_min_floor, c.min_verts * 2)]
          ELSE c

\* variant: the tier-2 floor is halved under an override too
resolve_policy_override_halved(category, lod_level, target_ratio) ==
  LET c == get_lod_config(category)
      f == IF lod_level = L_lod2 THEN Max(lod2_min_floor, c.min_verts \div 2)
           ELSE c.min_verts
  IN IF target_ratio # <<>>
     THEN [ratio |-> target_ratio, min_verts |-> f]
     ELSE IF lod_level = L_lod2
          THEN [ratio |-> RatMul(c.ratio, lod2_ratio_factor), min_verts |-> f]
          ELSE c

resolve_policy(category, lod_level, target_ratio) ==
  IF target_ratio # <<>>
  THEN [ratio     |-> target_ratio,
        min_verts |-> DictGet(min_vertices, category, min_vertices["default"])]
  ELSE LET c == get_lod_config(category)
       IN IF lod_level = L_lod2
          THEN [ratio     |-> RatMul(c.ratio, lod2_ratio_factor),
                min_verts |-> Max(lod2_min_floor, c.min_verts \div 2)]
          ELSE c

(***************************************************************************)
(* Derived-file markers                                                    *)
(***************************************************************************)
M_lod == <<"_", "l", "o", "d">>

M_lod1 == <<"_", "l", "o", "d", "1">>

M_lod2 == <<"_", "l", "o", "d", "2">>

M_optimized == <<"_", "o", "p", "t", "i", "m", "i", "z", "e", "d">>

\* bake-lod.py process_glb_file and process_input_files
bake_file_guard(stem) ==
  Contains(Lower(stem), M_lod1) \/ Contains(Lower(stem), M_lod2) \/ Contains(Lower(stem), M_lod)

\* bake-lod.py process_all_directories
bake_scan_filter(stem) ==
  Contains(Lower(stem), M_lod1) \/ Contains(Lower(stem), M_lod)

\* bake-lod.py process_multi_level_files
bake_multi_filter(stem) ==
  Contains(Lower(stem), M_lod1) \/ Contains(Lower(stem), M_lod2)

(***************************************************************************)
(* bake-lod.py: one work item                                              *)
(***************************************************************************)
ProjectRoot == <<"/", "p">>

TempRoot == <<"/", "t">>

\* Path.relative_to(PROJECT_ROOT) raises ValueError outside the project root
RelativeToRaises(p) == ~StartsWith(p, ProjectRoot \o Slash)

RelativeTo(p) == SubSeq(p, Len(ProjectRoot) + 2, Len(p))

\* the outcome of decimate_mesh on one object: the object afterwards, the
\* engine request made (if any) and whether modifier_apply raised
\* variant: the target is not raised to min_verts
decimate_mesh_no_floor(obj, ratio, min_verts) ==
  LET original_verts == obj.verts
      target_verts   == IntMul(original_verts, ratio)
      actual_ratio   == Rat(target_verts, original_verts)
      noop           == [obj |-> obj, calls |-> <<>>, raised |-> FALSE]
  IN IF obj.type # "MESH" THEN noop
     ELSE IF RatLE(ratio, Zero) \/ RatLE(One, ratio) THEN noop
     ELSE IF original_verts < skip_threshold THEN noop
     ELSE IF ModifierApplyRaises(obj)
          THEN [obj    |-> obj,
                calls  |-> <<DecimateCall(original_verts, actual_ratio, ratio, min_verts)>>,
                raised |-> TRUE]
          ELSE [obj    |-> ModifierApply(obj, actual_ratio),
                calls  |-> <<DecimateCall(original_verts, actual_ratio, ratio, min_verts)>>,
                raised |-> FALSE]

\* variant: a ratio of 1 or more is not turned into a no-op
decimate_mesh_no_upper_guard(obj, ratio, min_verts) ==
  LET original_verts == obj.verts
      target_verts   == Max(min_verts, IntMul(original_verts, ratio))
      actual_ratio   == Rat(target_verts, original_verts)
      noop           == [obj |-> obj, calls |-> <<>>, raised |-> FALSE]
  IN IF obj.type # "MESH" THEN noop
     ELSE IF RatLE(ratio, Zero) THEN noop
     ELSE IF original_verts < skip_threshold THEN noop
     ELSE IF ModifierApplyRaises(obj)
          THEN [obj    |-> obj,
                calls  |-> <<DecimateCall(original_verts, actual_ratio, ratio, min_verts)>>,
                raised |-> TRUE]
          ELSE [obj    |-> ModifierApply(obj, actual_ratio),
                calls  |-> <<DecimateCall(original_verts, actual_ratio, ratio, min_verts)>>,
                raised |-> FALSE]

\* variant: a part of exactly skip_threshold vertices is left alone
decimate_mesh_skip_at_threshold(obj, ratio, min_verts) ==
  LET original_verts == obj.verts
      target_verts   == Max(min_verts, IntMul(original_verts, ratio))
      actual_ratio   == Rat(target_verts, original_verts)
      noop           == [obj |-> obj, calls |-> <<>>, raised |-> FALSE]
  IN IF obj.type # "MESH" THEN noop
     ELSE IF RatLE(ratio, Zero) \/ RatLE(One, ratio) THEN noop
     ELSE IF original_verts <= skip_threshold THEN noop
     ELSE IF ModifierApplyRaises(obj)
          THEN [obj    |-> obj,
                calls  |-> <<DecimateCall(original_verts, actual_ratio, ratio, min_verts)>>,
                raised |-> TRUE]
          ELSE [obj    |-> ModifierApply(obj, actual_ratio),
                calls  |-> <<DecimateCall(original_verts, actual_ratio, ratio, min_verts)>>,
                raised |-> FALSE]

\* variant: the per-part threshold is halved like the asset-level one of lod2
decimate_mesh_part_threshold_halved(obj, ratio, min_verts) ==
  LET original_verts == obj.verts
      target_verts   == Max(min_verts, IntMul(original_verts, ratio))
      actual_ratio   == Rat(target_verts, original_verts)
      noop           == [obj |-> obj, calls |-> <<>>, raised |-> FALSE]
  IN IF obj.type # "MESH" THEN noop
     ELSE IF RatLE(ratio, Zero) \/ RatLE(One, ratio) THEN noop
     ELSE IF original_verts < skip_threshold \div 2 THEN noop
     ELSE IF ModifierApplyRaises(obj)
          THEN [obj    |-> obj,
                calls  |-> <<DecimateCall(original_verts, actual_ratio, ratio, min_verts)>>,
                raised |-> TRUE]
          ELSE [obj    |-> ModifierApply(obj, actual_ratio),
                calls  |-> <<DecimateCall(original_verts, actual_ratio, ratio, min_verts)>>,
                raised |-> FALSE]

decimate_mesh(obj, ratio, min_verts) ==
  LET original_verts == obj.verts
      target_verts   == Max(min_verts, IntMul(original_verts, ratio))
      actual_ratio   == Rat(target_verts, original_verts)
      noop           == [obj |-> obj, calls |-> <<>>, raised |-> FALSE]
  IN IF obj.type # "MESH" THEN noop
     ELSE IF RatLE(ratio, Zero) \/ RatLE(One, ratio) THEN noop
     ELSE IF original_verts < skip_threshold THEN noop
     ELSE IF ModifierApplyRaises(obj)
          THEN [obj    |-> obj,
                calls  |-> <<DecimateCall(original_verts, actual_ratio, ratio, min_verts)>>,
                raised |-> TRUE]
          ELSE [obj    |-> ModifierApply(obj, actual_ratio),
                calls  |-> <<DecimateCall(original_verts, actual_ratio, ratio, min_verts)>>,
                raised |-> FALSE]

\* "for obj in mesh_objects: decimate_mesh(obj, ratio, min_verts)": the loop
\* stops at the first object whose modifier_apply raises
RECURSIVE decimate_all(_, _, _)
decimate_all(objs, ratio, min_verts) ==
  IF objs = <<>> THEN [objs |-> <<>>, calls |-> <<>>, raised |-> FALSE]
  ELSE LET d == decimate_mesh(Head(objs), ratio, min_verts)
       IN IF d.raised
          THEN [objs |-> <<d.obj>> \o Tail(objs), calls |-> d.calls, raised |-> TRUE]
          ELSE LET rest == decimate_all(Tail(objs), ratio, min_verts)
               IN [objs   |-> <<d.obj>> \o rest.objs,
                   calls  |-> d.calls \o rest.calls,
                   raised |-> rest.raised]

get_total_vertices(objects) ==
  SumSeq([i \in 1..Len(objects) |->
            IF objects[i].type = "MESH" THEN objects[i].verts ELSE 0])

GlbContent(objs) == [objs |-> objs, corrupt |-> FALSE, tex |-> <<>>]

\* variant: import_glb does not clear the scene first
process_glb_file_no_clear(fsys, scn, input_path, lod_level, target_ratio, dry_run) ==
  LET suffix == IF lod_level = L_lod1 THEN M_lod1 ELSE M_lod2
      threshold == IF lod_level = L_lod1 THEN skip_threshold ELSE skip_threshold \div 2
      importCalls == <<ImportCall(input_path)>>
      \* the function body once the names it binds first are known
      steps(filename, output_path, category, ratio, min_verts, objects, original_verts) ==
        LET base == [ret |-> <<>>, fs |-> fsys, scene |-> scn, calls |-> <<>>,
                     raised |-> "", outcome |-> "marker", input |-> input_path,
                     output |-> output_path, level |-> lod_level,
                     category |-> category, ratio |-> ratio, min_verts |-> min_verts]
            imported == [base EXCEPT !.scene = Scene(scn.objs \o objects, <<>>), !.calls = importCalls]
            \* from the decimation loop on
            finish(dec) ==
              LET decimated == [imported EXCEPT !.scene = Scene(dec.objs, <<>>),
                                                !.calls = importCalls \o dec.calls]
                  tried     == [decimated EXCEPT !.calls = @ \o <<ExportCall(output_path)>>]
                  exported  == [tried EXCEPT
                                  !.fs = (output_path :> GlbContent(dec.objs)) @@ fsys]
              IN IF dec.raised
                 THEN [decimated EXCEPT !.outcome = "raised", !.raised = "RuntimeError"]
                 ELSE IF ExportRaises(output_path)
                 THEN [tried EXCEPT !.outcome = "raised", !.raised = "OSError"]
                 ELSE IF RelativeToRaises(input_path)
                 THEN [exported EXCEPT !.outcome = "raised", !.raised = "ValueError"]
                 ELSE [exported EXCEPT
                         !.outcome = "created",
                         !.ret = <<[input          |-> RelativeTo(input_path),
                                    output         |-> RelativeTo(output_path),
                                    category       |-> category,
                                    level          |-> lod_level,
                                    original_verts |-> original_verts,
                                    final_verts    |-> get_total_vertices(dec.objs)]>>]
        IN IF bake_file_guard(filename) THEN base
           ELSE IF RatLE(ratio, Zero) THEN [base EXCEPT !.outcome = "zero_ratio"]
           ELSE IF objects = <<>> THEN [imported EXCEPT !.outcome = "no_objects"]
           ELSE IF original_verts < threshold THEN [imported EXCEPT !.outcome = "too_small"]
           ELSE IF dry_run
                THEN IF RelativeToRaises(input_path)
                     THEN [imported EXCEPT !.outcome = "raised", !.raised = "ValueError"]
                     ELSE [imported EXCEPT
                             !.outcome = "dry_run",
                             !.ret = <<[input          |-> RelativeTo(input_path),
                                        output         |-> RelativeTo(output_path),
                                        category       |-> category,
                                        level          |-> lod_level,
                                        original_verts |-> original_verts,
                                        target_verts   |-> Max(min_verts, IntMul(original_verts, ratio))]>>]
           ELSE finish(decimate_all(objects, ratio, min_verts))
      with_objects(filename, category, policy, objects) ==
        steps(filename, PathParent(input_path) \o Slash \o filename \o suffix \o DotGlb,
              category, policy.ratio, policy.min_verts, objects, get_total_vertices(objects))
      with_category(category) ==
        with_objects(PathStem(input_path), category,
                     resolve_policy(category, lod_level, target_ratio),
                     IF ImportRaises(fsys, input_path) THEN <<>> ELSE fsys[input_path].objs)
  IN with_category(infer_category(input_path))

\* variant: the too-small check is made after the export
process_glb_file_size_check_late(fsys, scn, input_path, lod_level, target_ratio, dry_run) ==
  LET suffix == IF lod_level = L_lod1 THEN M_lod1 ELSE M_lod2
      threshold == IF lod_level = L_lod1 THEN skip_threshold ELSE skip_threshold \div 2
      importCalls == <<ClearCall, ImportCall(input_path)>>
      \* the function body once the names it binds first are known
      steps(filename, output_path, category, ratio, min_verts, objects, original_verts) ==
        LET base == [ret |-> <<>>, fs |-> fsys, scene |-> scn, calls |-> <<>>,
                     raised |-> "", outcome |-> "marker", input |-> input_path,
                     output |-> output_path, level |-> lod_level,
                     category |-> category, ratio |-> ratio, min_verts |-> min_verts]
            imported == [base EXCEPT !.scene = Scene(objects, <<>>), !.calls = importCalls]
            \* from the decimation loop on
            finish(dec) ==
              LET decimated == [imported EXCEPT !.scene = Scene(dec.objs, <<>>),
                                                !.calls = importCalls \o dec.calls]
                  tried     == [decimated EXCEPT !.calls = @ \o <<ExportCall(output_path)>>]
                  exported  == [tried EXCEPT
                                  !.fs = (output_path :> GlbContent(dec.objs)) @@ fsys]
              IN IF dec.raised
                 THEN [decimated EXCEPT !.outcome = "raised", !.raised = "RuntimeError"]
                 ELSE IF ExportRaises(output_path)
                 THEN [tried EXCEPT !.outcome = "raised", !.raised = "OSError"]
                 ELSE IF RelativeToRaises(input_path)
                 THEN [exported EXCEPT !.outcome = "raised", !.raised = "ValueError"]
                 ELSE [exported EXCEPT
                         !.outcome = "created",
                         !.ret = <<[input          |-> RelativeTo(input_path),
                                    output         |-> RelativeTo(output_path),
                                    category       |-> category,
                                    level          |-> lod_level,
                                    original_verts |-> original_verts,
                                    final_verts    |-> get_total_vertices(dec.objs)]>>]
        IN IF bake_file_guard(filename) THEN base
           ELSE IF RatLE(ratio, Zero) THEN [base EXCEPT !.outcome = "zero_ratio"]
           ELSE IF objects = <<>> THEN [imported EXCEPT !.outcome = "no_objects"]
           ELSE IF original_verts < threshold
                THEN [finish(decimate_all(objects, ratio, min_verts)) EXCEPT
                        !.outcome = "too_small", !.ret = <<>>]
           ELSE IF dry_run
                THEN IF RelativeToRaises(input_path)
                     THEN [imported EXCEPT !.outcome = "raised", !.raised = "ValueError"]
                     ELSE [imported EXCEPT
                             !.outcome = "dry_run",
                             !.ret = <<[input          |-> RelativeTo(input_path),
                                        output         |-> RelativeTo(output_path),
                                        category       |-> category,
                                        level          |-> lod_level,
                                        original_verts |-> original_verts,
                                        target_verts   |-> Max(min_verts, IntMul(original_verts, ratio))]>>]
           ELSE finish(decimate_all(objects, ratio, min_verts))
      with_objects(filename, category, policy, objects) ==
        steps(filename, PathParent(input_path) \o Slash \o filename \o suffix \o DotGlb,
              category, policy.ratio, policy.min_verts, objects, get_total_vertices(objects))
      with_category(category) ==
        with_objects(PathStem(input_path), category,
                     resolve_policy(category, lod_level, target_ratio),
                     IF ImportRaises(fsys, input_path) THEN <<>> ELSE fsys[input_path].objs)
  IN with_category(infer_category(input_path))

\* process_glb_file(input_path, lod_level, target_ratio) run on file system
\* fsys with the engine scene scn.  ret is <<>> for None, <<result>> else;
\* raised names the exception that escapes the function ("" when none).
process_glb_file(fsys, scn, input_path, lod_level, target_ratio, dry_run) ==
  LET suffix == IF lod_level = L_lod1 THEN M_lod1 ELSE M_lod2
      threshold == IF lod_level = L_lod1 THEN skip_threshold ELSE skip_threshold \div 2
      importCalls == <<ClearCall, ImportCall(input_path)>>
      \* the function body once the names it binds first are known
      steps(filename, output_path, category, ratio, min_verts, objects, original_verts) ==
        LET base == [ret |-> <<>>, fs |-> fsys, scene |-> scn, calls |-> <<>>,
                     raised |-> "", outcome |-> "marker", input |-> input_path,
                     output |-> output_path, level |-> lod_level,
                     category |-> category, ratio |-> ratio, min_verts |-> min_verts]
            imported == [base EXCEPT !.scene = Scene(objects, <<>>), !.calls = importCalls]
            \* from the decimation loop on
            finish(dec) ==
              LET decimated == [imported EXCEPT !.scene = Scene(dec.objs, <<>>),
                                                !.calls = importCalls \o dec.calls]
                  tried     == [decimated EXCEPT !.calls = @ \o <<ExportCall(output_path)>>]
                  exported  == [tried EXCEPT
                                  !.fs = (output_path :> GlbContent(dec.objs)) @@ fsys]
              IN IF dec.raised
                 THEN [decimated EXCEPT !.outcome = "raised", !.raised = "RuntimeError"]
                 ELSE IF ExportRaises(output_path)
                 THEN [tried EXCEPT !.outcome = "raised", !.raised = "OSError"]
                 ELSE IF RelativeToRaises(input_path)
                 THEN [exported EXCEPT !.outcome = "raised", !.raised = "ValueError"]
                 ELSE [exported EXCEPT
                         !.outcome = "created",
                         !.ret = <<[input          |-> RelativeTo(input_path),
                                    output         |-> RelativeTo(output_path),
                                    category       |-> category,
                                    level          |-> lod_level,
                                    original_verts |-> original_verts,
                                    final_verts    |-> get_total_vertices(dec.objs)]>>]
        IN IF bake_file_guard(filename) THEN base
           ELSE IF RatLE(ratio, Zero) THEN [base EXCEPT !.outcome = "zero_ratio"]
           ELSE IF objects = <<>> THEN [imported EXCEPT !.outcome = "no_objects"]
           ELSE IF original_verts < threshold THEN [imported EXCEPT !.outcome = "too_small"]
           ELSE IF dry_run
                THEN IF RelativeToRaises(input_path)
                     THEN [imported EXCEPT !.outcome = "raised", !.raised = "ValueError"]
                     ELSE [imported EXCEPT
                             !.outcome = "dry_run",
                             !.ret = <<[input          |-> RelativeTo(input_path),
                                        output         |-> RelativeTo(output_path),
                                        category       |-> category,
                                        level          |-> lod_level,
                                        original_verts |-> original_verts,
                                        target_verts   |-> Max(min_verts, IntMul(original_verts, ratio))]>>]
           ELSE finish(decimate_all(objects, ratio, min_verts))
      with_objects(filename, category, policy, objects) ==
        steps(filename, PathParent(input_path) \o Slash \o filename \o suffix \o DotGlb,
              category, policy.ratio, policy.min_verts, objects, get_total_vertices(objects))
      with_category(category) ==
        with_objects(PathStem(input_path), category,
                     resolve_policy(category, lod_level, target_ratio),
                     IF ImportRaises(fsys, input_path) THEN <<>> ELSE fsys[input_path].objs)
  IN with_category(infer_category(input_path))

(***************************************************************************)
(* Directory listings                                                      *)
(***************************************************************************)
\* lexicographic order of strings by code point
RECURSIVE StrLess(_, _)
StrLess(a, b) ==
  IF b = <<>> THEN FALSE
  ELSE IF a = <<>> THEN TRUE
  ELSE IF Ord(Head(a)) # Ord(Head(b)) THEN Ord(Head(a)) < Ord(Head(b))
  ELSE StrLess(Tail(a), Tail(b))

\* the parts of a path: pathlib compares paths part by part
RECURSIVE SplitPath(_)
SplitPath(p) ==
  IF ~Contains(p, Slash) THEN <<p>>
  ELSE LET i == CHOOSE k \in 1..Len(p) : p[k] = "/" /\ \A j \in 1..(k - 1) : p[j] # "/"
       IN <<SubSeq(p, 1, i - 1)>> \o SplitPath(SubSeq(p, i + 1, Len(p)))

RECURSIVE PartsLess(_, _)
PartsLess(a, b) ==
  IF b = <<>> THEN FALSE
  ELSE IF a = <<>> THEN TRUE
  ELSE IF Head(a) # Head(b) THEN StrLess(Head(a), Head(b))
  ELSE PartsLess(Tail(a), Tail(b))

PathLess(p, q) == PartsLess(SplitPath(p), SplitPath(q))

\* variant: the paths in descending order
RECURSIVE SortPaths_descending(_)
SortPaths_descending(S) ==
  IF S = {} THEN <<>>
  ELSE LET m == CHOOSE p \in S : \A q \in S \ {p} : PathLess(q, p)
       IN <<m>> \o SortPaths_descending(S \ {m})

\* sorted(paths)
RECURSIVE SortPaths(_)
SortPaths(S) ==
  IF S = {} THEN <<>>
  ELSE LET m == CHOOSE p \in S : \A q \in S \ {p} : PathLess(p, q)
       IN <<m>> \o SortPaths(S \ {m})

\* Path(dir).rglob("*" + ext): every file below dir with that extension
RGlob(fsys, dir, ext) ==
  {p \in DOMAIN fsys : StartsWith(p, dir \o Slash) /\ EndsWith(p, ext)}

\* Path(dir).glob("*" + ext): the files directly in dir with that extension
Glob(fsys, dir, ext) ==
  {p \in DOMAIN fsys : PathParent(p) = dir /\ EndsWith(p, ext)}

\* Path(dir).exists() for a directory: the model has no empty directories
DirExists(fsys, dir) == \E p \in DOMAIN fsys : StartsWith(p, dir \o Slash)

RECURSIVE Flatten(_)
Flatten(ss) == IF ss = <<>> THEN <<>> ELSE Head(ss) \o Flatten(Tail(ss))

(***************************************************************************)
(* bake-lod.py: argument parsing (--input-list)                            *)
(***************************************************************************)
RECURSIVE Split(_, _)
Split(s, c) ==
  IF \A k \in 1..Len(s) : s[k] # c THEN <<s>>
  ELSE LET i == CHOOSE k \in 1..Len(s) : s[k] = c /\ \A j \in 1..(k - 1) : s[j] # c
       IN <<SubSeq(s, 1, i - 1)>> \o Split(SubSeq(s, i + 1, Len(s)), c)

Digits == <<"0", "1", "2", "3", "4", "5", "6", "7", "8", "9">>

IsDigit(c) == \E d \in 1..10 : Digits[d] = c

DigitVal(c) == (CHOOSE d \in 1..10 : Digits[d] = c) - 1

RECURSIVE DigitsVal(_)
DigitsVal(s) ==
  IF s = <<>> THEN 0 ELSE DigitsVal(SubSeq(s, 1, Len(s) - 1)) * 10 + DigitVal(s[Len(s)])

RECURSIVE Pow10(_)
Pow10(k) == IF k = 0 THEN 1 ELSE 10 * Pow10(k - 1)

\* the decimal literals float() is given here: [-]digits[.digits]
FloatParts(s) ==
  LET neg  == s # <<>> /\ Head(s) = "-"
      body == IF neg THEN Tail(s) ELSE s
      dot  == LastIndexOf(body, ".")
      ip   == IF dot = 0 THEN body ELSE SubSeq(body, 1, dot - 1)
      fp   == IF dot = 0 THEN <<>> ELSE SubSeq(body, dot + 1, Len(body))
  IN [neg |-> neg, ip |-> ip, fp |-> fp]

\* float(s) raises ValueError
FloatRaises(s) ==
  LET f == FloatParts(s)
  IN \/ f.ip \o f.fp = <<>>
     \/ \E i \in 1..Len(f.ip) : ~IsDigit(f.ip[i])
     \/ \E i \in 1..Len(f.fp) : ~IsDigit(f.fp[i])

\* float(s) as an exact rational
Float(s) ==
  LET f == FloatParts(s)
      n == DigitsVal(f.ip) * Pow10(Len(f.fp)) + DigitsVal(f.fp)
  IN Rat(IF f.neg THEN 0 - n ELSE n, Pow10(Len(f.fp)))

RatDivInt(r, k) == Rat(r[1], r[2] * k)

\* variant: the percentage is stored without the division by 100
RECURSIVE parse_input_list_percent_kept(_)
parse_input_list_percent_kept(lines) ==
  IF lines = <<>>
  THEN [input_files |-> <<>>, input_file_configs |-> <<>>, raised |-> FALSE]
  ELSE LET line  == Head(lines)
           parts == Split(line, "|")
           rest  == parse_input_list_percent_kept(Tail(lines))
       IN IF line = <<>> THEN rest
          ELSE IF Contains(line, <<"|">>)
               THEN IF Len(parts) >= 3
                    THEN IF FloatRaises(parts[3])
                         THEN [input_files |-> <<>>, input_file_configs |-> <<>>,
                               raised |-> TRUE]
                         ELSE [rest EXCEPT !.input_file_configs =
                                 <<[path           |-> parts[1],
                                    level          |-> parts[2],
                                    target_percent |-> Float(parts[3])]>> \o @]
                    ELSE rest
               ELSE [rest EXCEPT !.input_files = <<line>> \o @]

\* lines 96-112: the lines of the --input-list file, read in order
RECURSIVE parse_input_list(_)
parse_input_list(lines) ==
  IF lines = <<>>
  THEN [input_files |-> <<>>, input_file_configs |-> <<>>, raised |-> FALSE]
  ELSE LET line  == Head(lines)
           parts == Split(line, "|")
           rest  == parse_input_list(Tail(lines))
       IN IF line = <<>> THEN rest
          ELSE IF Contains(line, <<"|">>)
               THEN IF Len(parts) >= 3
                    THEN IF FloatRaises(parts[3])
                         THEN [input_files |-> <<>>, input_file_configs |-> <<>>,
                               raised |-> TRUE]
                         ELSE [rest EXCEPT !.input_file_configs =
                                 <<[path           |-> parts[1],
                                    level          |-> parts[2],
                                    target_percent |-> RatDivInt(Float(parts[3]), 100)]>> \o @]
                    ELSE rest
               ELSE [rest EXCEPT !.input_files = <<line>> \o @]

(***************************************************************************)
(* bake-lod.py: the driver                                                 *)
(***************************************************************************)
\* asset files the bake-lod runs are tried on
BakeUniverse ==
  (<<"/", "p", "/", "t", "r", "e", "e", "s", "/", "o", "a", "k", ".", "g", "l", "b">> :> GlbContent(<<MeshObj(500)>>)) @@
  (<<"/", "p", "/", "v", "e", "g", "/", "f", "a", "l", "l", "e", "n", "_", "t", "r", "e", "e", ".", "g", "l", "b">> :> GlbContent(<<MeshObj(150), MeshObj(150)>>)) @@
  (<<"/", "p", "/", "v", "e", "g", "/", "B", "u", "s", "h", "_", "L", "O", "D", "2", ".", "g", "l", "b">> :> GlbContent(<<MeshObj(300)>>)) @@
  (<<"/", "p", "/", "v", "e", "g", "/", "g", "r", "a", "s", "s", ".", "g", "l", "b">> :> GlbContent(<<MeshObj(400)>>)) @@
  (<<"/", "p", "/", "v", "e", "g", "/", "b", "u", "s", "h", ".", "g", "l", "b">> :> GlbContent(<<MeshObj(1010), ArmatureObj>>)) @@
  (<<"/", "p", "/", "v", "e", "g", "/", "r", "o", "c", "k", "_", "l", "o", "d", "3", ".", "g", "l", "b">> :> GlbContent(<<MeshObj(600)>>)) @@
  (<<"/", "p", "/", "v", "e", "g", "/", "f", "e", "r", "n", ".", "g", "l", "b">> :> GlbContent(<<MeshObj(150)>>)) @@
  (<<"/", "p", "/", "v", "e", "g", "/", "i", "v", "y", ".", "g", "l", "b">> :> [objs |-> <<MeshObj(800)>>, corrupt |-> TRUE, tex |-> <<>>]) @@
  (<<"/", "p", "/", "v", "e", "g", "/", "s", "t", "o", "n", "e", ".", "g", "l", "b">> :> GlbContent(<<KeyedMeshObj(400)>>)) @@
  (<<"/", "p", "/", "r", "o", "/", "r", "o", "c", "k", ".", "g", "l", "b">> :> GlbContent(<<MeshObj(1000)>>)) @@
  (<<"/", "t", "/", "v", "e", "g", "/", "f", "l", "o", "w", "e", "r", ".", "g", "l", "b">> :> GlbContent(<<MeshObj(300)>>))

\* lines an --input-list file is made of
ManifestLines ==
  { <<"/", "p", "/", "t", "r", "e", "e", "s", "/", "o", "a", "k", ".", "g", "l", "b", "|", "l", "o", "d", "1", "|", "1", "2", ".", "5">>,
    <<"/", "p", "/", "t", "r", "e", "e", "s", "/", "o", "a", "k", ".", "g", "l", "b", "|", "l", "o", "d", "2", "|", "1", "5", "0">>,
    <<"/", "p", "/", "v", "e", "g", "/", "g", "r", "a", "s", "s", ".", "g", "l", "b", "|", "l", "o", "d", "1", "|", "0">>,
    <<"/", "p", "/", "v", "e", "g", "/", "f", "e", "r", "n", ".", "g", "l", "b", "|", "l", "o", "d", "2", "|", "-", "5">>,
    <<"/", "p", "/", "v", "e", "g", "/", "r", "o", "c", "k", "_", "l", "o", "d", "3", ".", "g", "l", "b", "|", "l", "o", "d", "2", "|", "2", "5">>,
    <<"/", "p", "/", "v", "e", "g", "/", "b", "u", "s", "h", ".", "g", "l", "b", "|", "l", "o", "d", "3", "|", "5", "0">>,
    <<"/", "p", "/", "v", "e", "g", "/", "B", "u", "s", "h", "_", "L", "O", "D", "2", ".", "g", "l", "b", "|", "l", "o", "d", "1", "|", "5", "0">>,
    <<"/", "p", "/", "v", "e", "g", "/", "n", "o", "n", "e", ".", "g", "l", "b", "|", "l", "o", "d", "1", "|", "1", "0">>,
    <<"/", "p", "/", "v", "e", "g", "/", "n", "o", "n", "e", ".", "g", "l", "b", "|", "l", "o", "d", "1">>,
    <<"/", "p", "/", "r", "o", "/", "r", "o", "c", "k", ".", "g", "l", "b", "|", "l", "o", "d", "1", "|", "a", "b", "c">>,
    <<"/", "p", "/", "r", "o", "/", "r", "o", "c", "k", ".", "g", "l", "b", "|", "l", "o", "d", "1", "|", "2", "0">>,
    <<"/", "p", "/", "v", "e", "g", "/", "b", "u", "s", "h", ".", "g", "l", "b">>,
    <<"/", "p", "/", "v", "e", "g", "/", "B", "u", "s", "h", "_", "L", "O", "D", "2", ".", "g", "l", "b">>,
    <<"/", "p", "/", "v", "e", "g", "/", "n", "o", "n", "e", ".", "g", "l", "b">>,
    <<>> }

SeqsUpTo(S, n) == UNION {[1..k -> S] : k \in 0..n}

Restrict(f, S) == [x \in S |-> f[x]]

BakeInputDirs == << <<"v", "e", "g">>, <<"t", "r", "e", "e", "s">>, <<"r", "o">> >>

BakeInit ==
  /\ pipeline = "bake"
  /\ \/ /\ manifest = <<>>
        /\ \E S \in SUBSET DOMAIN BakeUniverse :
             /\ Cardinality(S) <= MaxFiles
             /\ fs = Restrict(BakeUniverse, S)
        /\ cfg \in [dry_run : BOOLEAN, temp_dir : {<<>>, TempRoot},
                    input_dirs : {BakeInputDirs}]
     \/ /\ manifest \in SeqsUpTo(ManifestLines, MaxLines) \ {<<>>}
        /\ fs = BakeUniverse
        /\ cfg \in [dry_run : BOOLEAN, temp_dir : {<<>>},
                    input_dirs : {BakeInputDirs}]

\* what a run of any script starts from
FreshRun ==
  /\ mode = ""
  /\ dirs = <<>>
  /\ phase = "start"
  /\ queue = <<>>
  /\ results = <<>>
  /\ trace = <<>>
  /\ scene = EmptyScene
  /\ report = <<>>

\* process_all_directories: the (input_dir, search_root) pairs in loop order
search_roots(fsys, c) ==
  <<ProjectRoot>> \o
  (IF c.temp_dir # <<>> /\ DirExists(fsys, c.temp_dir) THEN <<c.temp_dir>> ELSE <<>>)

scan_dirs(fsys, c) ==
  LET roots == search_roots(fsys, c)
  IN Flatten([i \in 1..Len(c.input_dirs) |->
                [j \in 1..Len(roots) |-> roots[j] \o Slash \o c.input_dirs[i]]])

\* variant: the simple list is tested before the multi-level list
BakeStart_list_first ==
  /\ pipeline = "bake" /\ phase = "start"
  /\ LET choose_mode(parsed) ==
           IF parsed.raised
           THEN /\ phase' = "crashed"
                /\ UNCHANGED <<mode, queue, dirs>>
           ELSE /\ phase' = "items"
                /\ IF parsed.input_files # <<>>
                   THEN mode' = "list" /\ queue' = parsed.input_files /\ dirs' = <<>>
                   ELSE IF parsed.input_file_configs # <<>>
                   THEN mode' = "multi" /\ queue' = parsed.input_file_configs /\ dirs' = <<>>
                   ELSE mode' = "scan" /\ queue' = <<>> /\ dirs' = scan_dirs(fs, cfg)
     IN choose_mode(parse_input_list(manifest))
  /\ UNCHANGED <<pipeline, cfg, fs0, fs, manifest, results, trace, scene, run,
                 prevResults, prevReport, report>>

\* module-level argument parsing followed by the mode selection of main()
BakeStart ==
  /\ pipeline = "bake" /\ phase = "start"
  /\ LET choose_mode(parsed) ==
           IF parsed.raised
           THEN /\ phase' = "crashed"
                /\ UNCHANGED <<mode, queue, dirs>>
           ELSE /\ phase' = "items"
                /\ IF parsed.input_file_configs # <<>>
                   THEN mode' = "multi" /\ queue' = parsed.input_file_configs /\ dirs' = <<>>
                   ELSE IF parsed.input_files # <<>>
                   THEN mode' = "list" /\ queue' = parsed.input_files /\ dirs' = <<>>
                   ELSE mode' = "scan" /\ queue' = <<>> /\ dirs' = scan_dirs(fs, cfg)
     IN choose_mode(parse_input_list(manifest))
  /\ UNCHANGED <<pipeline, cfg, fs0, fs, manifest, results, trace, scene, run,
                 prevResults, prevReport, report>>

\* process_all_directories: list the next directory
BakeScanDir ==
  /\ pipeline = "bake" /\ phase = "items" /\ mode = "scan"
  /\ queue = <<>> /\ dirs # <<>>
  /\ LET input_path == Head(dirs)
         glb_files  == {f \in RGlob(fs, input_path, DotGlb) : ~bake_scan_filter(PathStem(f))}
     IN queue' = SortPaths(glb_files)
  /\ dirs' = Tail(dirs)
  /\ UNCHANGED <<pipeline, cfg, fs0, fs, manifest, mode, phase, results, trace, scene,
                 run, prevResults, prevReport, report>>

\* what the trace keeps of one call of process_glb_file
BakeEntry(item, r) ==
  [item |-> item, outcome |-> r.outcome, calls |-> r.calls, raised |-> r.raised,
   appended |-> Len(r.ret), input |-> r.input, output |-> r.output,
   level |-> r.level, category |-> r.category, ratio |-> r.ratio,
   min_verts |-> r.min_verts]

\* a work item the loop drops before calling process_glb_file
BakeDropped(item, path, why) ==
  [item |-> item, outcome |-> why, calls |-> <<>>, raised |-> "", appended |-> 0,
   input |-> path]

BakeApply(item, r) ==
  /\ results' = results \o r.ret
  /\ trace' = Append(trace, BakeEntry(item, r))
  /\ fs' = r.fs
  /\ scene' = r.scene
  /\ phase' = IF r.raised # "" THEN "crashed" ELSE phase
  /\ queue' = Tail(queue)

BakeDrop(item, path, why) ==
  /\ trace' = Append(trace, BakeDropped(item, path, why))
  /\ queue' = Tail(queue)
  /\ UNCHANGED <<results, fs, scene, phase>>

\* process_all_directories: one iteration of "for glb_file in sorted(glb_files)"
BakeScanFile ==
  /\ pipeline = "bake" /\ phase = "items" /\ mode = "scan" /\ queue # <<>>
  /\ BakeApply(Head(queue),
               process_glb_file(fs, scene, Head(queue), L_lod1, <<>>, cfg.dry_run))
  /\ UNCHANGED <<pipeline, cfg, fs0, manifest, mode, dirs, run, prevResults, prevReport, report>>

\* process_input_files: one iteration of "for filepath in files"
BakeListFile ==
  /\ pipeline = "bake" /\ phase = "items" /\ mode = "list" /\ queue # <<>>
  /\ LET filepath == Head(queue)
     IN IF filepath \notin DOMAIN fs THEN BakeDrop(filepath, filepath, "not_found")
        ELSE IF bake_file_guard(PathStem(filepath)) THEN BakeDrop(filepath, filepath, "filtered")
        ELSE BakeApply(filepath,
                       process_glb_file(fs, scene, filepath, L_lod1, <<>>, cfg.dry_run))
  /\ UNCHANGED <<pipeline, cfg, fs0, manifest, mode, dirs, run, prevResults, prevReport, report>>

\* process_multi_level_files: one iteration of "for config in configs"
BakeMultiFile ==
  /\ pipeline = "bake" /\ phase = "items" /\ mode = "multi" /\ queue # <<>>
  /\ LET config == Head(queue)
     IN IF config.path \notin DOMAIN fs THEN BakeDrop(config, config.path, "not_found")
        ELSE IF bake_multi_filter(PathStem(config.path)) THEN BakeDrop(config, config.path, "filtered")
        ELSE BakeApply(config,
                       process_glb_file(fs, scene, config.path, config.level,
                                        config.target_percent, cfg.dry_run))
  /\ UNCHANGED <<pipeline, cfg, fs0, manifest, mode, dirs, run, prevResults, prevReport, report>>

\* main(), lines 493-529: the summary printed from the results list
bake_report(rs) ==
  LET final(r) == IF "final_verts" \in DOMAIN r THEN r.final_verts
                  ELSE IF "target_verts" \in DOMAIN r THEN r.target_verts ELSE 0
      levels == {rs[i].level : i \in 1..Len(rs)}
      cats   == {rs[i].category : i \in 1..Len(rs)}
  IN [count          |-> Len(rs),
      total_original |-> SumSeq([i \in 1..Len(rs) |-> rs[i].original_verts]),
      total_final    |-> SumSeq([i \in 1..Len(rs) |-> final(rs[i])]),
      by_level       |-> [l \in levels |-> Cardinality({i \in 1..Len(rs) : rs[i].level = l})],
      by_category    |-> [c \in cats |-> Cardinality({i \in 1..Len(rs) : rs[i].category = c})]]

BakeSummary ==
  /\ pipeline = "bake" /\ phase = "items" /\ queue = <<>> /\ dirs = <<>>
  /\ report' = <<bake_report(results)>>
  /\ phase' = "done"
  /\ UNCHANGED <<pipeline, cfg, fs0, fs, manifest, mode, dirs, queue, results, trace,
                 scene, run, prevResults, prevReport>>

(***************************************************************************)
(* decimate-vrm.py                                                         *)
(***************************************************************************)
vrm_min_vertices == 5000

vrm_part_threshold == 100

\* variant: only the _lod marker is checked
vrm_filter_lod_only(stem) ==
  Contains(Lower(stem), M_lod)

\* process_vrm_file / main: already-optimized check
vrm_filter(stem) ==
  Contains(Lower(stem), M_optimized) \/ Contains(Lower(stem), M_lod)

\* get_mesh_stats()
get_mesh_stats(objs) ==
  [vertices  |-> SumSeq([i \in 1..Len(objs) |->
                           IF objs[i].type = "MESH" THEN objs[i].verts ELSE 0]),
   triangles |-> SumSeq([i \in 1..Len(objs) |->
                           IF objs[i].type = "MESH" THEN objs[i].tris ELSE 0]),
   meshes    |-> Cardinality({i \in 1..Len(objs) : objs[i].type = "MESH"})]

\* decimate_meshes, body of the loop for one object
\* variant: the floor adds one vertex to min_verts
vrm_decimate_one_floor_plus_one(obj, target_ratio, min_verts) ==
  LET original_verts == obj.verts
      target_verts   == IntMul(original_verts, target_ratio)
      floored        == target_verts < min_verts
      actual_ratio   == IF floored THEN Rat(min_verts + 1, original_verts) ELSE target_ratio
      noop           == [obj |-> obj, calls |-> <<>>, warnings |-> 0]
      call           == DecimateCall(original_verts, actual_ratio, target_ratio, min_verts)
  IN IF obj.type # "MESH" THEN noop
     ELSE IF original_verts < vrm_part_threshold THEN noop
     ELSE IF floored /\ RatLE(One, actual_ratio) THEN noop
     ELSE IF ModifierApplyRaises(obj)
          THEN [obj |-> obj, calls |-> <<call>>, warnings |-> 1]
          ELSE [obj |-> ModifierApply(obj, actual_ratio), calls |-> <<call>>, warnings |-> 0]

vrm_decimate_one(obj, target_ratio, min_verts) ==
  LET original_verts == obj.verts
      target_verts   == IntMul(original_verts, target_ratio)
      floored        == target_verts < min_verts
      actual_ratio   == IF floored THEN Rat(min_verts, original_verts) ELSE target_ratio
      noop           == [obj |-> obj, calls |-> <<>>, warnings |-> 0]
      call           == DecimateCall(original_verts, actual_ratio, target_ratio, min_verts)
  IN IF obj.type # "MESH" THEN noop
     ELSE IF original_verts < vrm_part_threshold THEN noop
     ELSE IF floored /\ RatLE(One, actual_ratio) THEN noop
     ELSE IF ModifierApplyRaises(obj)
          THEN [obj |-> obj, calls |-> <<call>>, warnings |-> 1]
          ELSE [obj |-> ModifierApply(obj, actual_ratio), calls |-> <<call>>, warnings |-> 0]

decimate_meshes(objs, target_ratio, min_verts) ==
  LET d == [i \in 1..Len(objs) |-> vrm_decimate_one(objs[i], target_ratio, min_verts)]
  IN [objs     |-> [i \in 1..Len(objs) |-> d[i].obj],
      calls    |-> Flatten([i \in 1..Len(objs) |-> d[i].calls]),
      warnings |-> SumSeq([i \in 1..Len(objs) |-> d[i].warnings])]

\* process_vrm_file(input_path)
process_vrm_file(fsys, scn, input_path, c) ==
  LET filename    == PathStem(input_path)
      name        == PathName(input_path)
      output_path == PathParent(input_path) \o Slash \o filename \o M_optimized \o DotVrm
      base        == [ret |-> <<>>, fs |-> fsys, scene |-> scn, calls |-> <<>>,
                      warnings |-> 0, outcome |-> "marker", input |-> input_path,
                      output |-> output_path, ratio |-> c.target_ratio]
      importCalls == <<ClearCall, ImportCall(input_path)>>
      content     == fsys[input_path]
      original    == get_mesh_stats(content.objs)
      target_ratio ==
        IF c.target_triangles # 0 /\ original.triangles > 0
        THEN LET q == Rat(c.target_triangles, original.triangles)
             IN IF RatLE(One, q) THEN One ELSE q
        ELSE c.target_ratio
      imported    == [base EXCEPT !.scene = Scene(content.objs, content.tex),
                                  !.calls = importCalls, !.ratio = target_ratio]
      dec         == decimate_meshes(content.objs, target_ratio, c.min_vertices)
      final       == get_mesh_stats(dec.objs)
      decimated   == [imported EXCEPT !.scene = Scene(dec.objs, content.tex),
                                      !.calls = importCalls \o dec.calls \o
                                                <<ExportCall(output_path)>>,
                                      !.warnings = dec.warnings]
  IN IF vrm_filter(filename) THEN base
     ELSE IF ImportRaises(fsys, input_path)
          THEN [base EXCEPT !.scene = EmptyScene, !.calls = importCalls,
                            !.outcome = "import_failed",
                            !.ret = <<[file |-> name, status |-> "error",
                                       error |-> "Import failed"]>>]
     ELSE IF c.dry_run
          THEN [imported EXCEPT
                  !.outcome = "dry_run",
                  !.ret = <<[file |-> name, status |-> "dry-run",
                             original_triangles |-> original.triangles,
                             target_triangles |-> IntMul(original.triangles, target_ratio)]>>]
     ELSE IF ExportRaises(output_path)
          THEN [decimated EXCEPT
                  !.outcome = "export_failed",
                  !.ret = <<[file |-> name, status |-> "error",
                             error |-> "Export failed"]>>]
     ELSE [decimated EXCEPT
             !.outcome = "created",
             !.fs = (output_path :> [objs |-> dec.objs, corrupt |-> FALSE,
                                     tex |-> content.tex]) @@ fsys,
             !.ret = <<[file |-> name, status |-> "success",
                        output |-> PathName(output_path),
                        original_triangles |-> original.triangles,
                        final_triangles |-> final.triangles,
                        original_vertices |-> original.vertices,
                        final_vertices |-> final.vertices]>>]

\* image textures of an avatar material: the shader input the image node is
\* linked to (<<>> when unlinked), the image name and its size in pixels
Texture(socket, name, w, h) == [socket |-> socket, name |-> name, w |-> w, h |-> h]

AvatarContent(objs, tex) == [objs |-> objs, corrupt |-> FALSE, tex |-> tex]

TexBody == Texture(<<"B", "a", "s", "e", " ", "C", "o", "l", "o", "r">>, <<"b", "o", "d", "y", "_", "d">>, 4096, 2048)

TexMetal == Texture(<<"M", "e", "t", "a", "l", "l", "i", "c">>, <<"b", "o", "d", "y", "_", "m">>, 1024, 1024)

\* avatar files the avatar runs are tried on
AvatarUniverse ==
  (<<"/", "p", "/", "a", "v", "a", "t", "a", "r", "s", "/", "h", "e", "r", "o", ".", "v", "r", "m">> :>
     AvatarContent(<<MeshObj(30000), ArmatureObj>>, <<TexBody, TexMetal>>)) @@
  (<<"/", "p", "/", "a", "v", "a", "t", "a", "r", "s", "/", "n", "p", "c", ".", "v", "r", "m">> :>
     AvatarContent(<<MeshObj(20000), MeshObj(50), KeyedMeshObj(9000)>>, <<>>)) @@
  (<<"/", "p", "/", "a", "v", "a", "t", "a", "r", "s", "/", "s", "m", "a", "l", "l", ".", "v", "r", "m">> :> AvatarContent(<<MeshObj(3000)>>, <<TexBody>>)) @@
  (<<"/", "p", "/", "a", "v", "a", "t", "a", "r", "s", "/", "h", "e", "r", "o", "_", "o", "p", "t", "i", "m", "i", "z", "e", "d", ".", "v", "r", "m">> :> AvatarContent(<<MeshObj(6000)>>, <<>>)) @@
  (<<"/", "p", "/", "a", "v", "a", "t", "a", "r", "s", "/", "n", "p", "c", "_", "L", "O", "D", "1", ".", "v", "r", "m">> :> AvatarContent(<<MeshObj(4000)>>, <<>>)) @@
  (<<"/", "p", "/", "a", "v", "a", "t", "a", "r", "s", "/", "b", "r", "o", "k", "e", "n", ".", "v", "r", "m">> :>
     [objs |-> <<MeshObj(7000)>>, corrupt |-> TRUE, tex |-> <<>>]) @@
  (<<"/", "p", "/", "r", "o", "/", "m", "a", "g", "e", ".", "v", "r", "m">> :> AvatarContent(<<MeshObj(12000)>>, <<>>))

VrmInit ==
  /\ pipeline = "vrm"
  /\ manifest = <<>>
  /\ \E S \in SUBSET DOMAIN AvatarUniverse :
       /\ Cardinality(S) <= MaxFiles
       /\ fs = Restrict(AvatarUniverse, S)
  /\ cfg \in [dry_run : BOOLEAN, input_dir : {<<"a", "v", "a", "t", "a", "r", "s">>, <<"r", "o">>},
              target_ratio : {Rat(6, 100), Rat(1, 2)}, target_triangles : {0, 30000},
              min_vertices : {vrm_min_vertices}]

\* main(), lines 301-317: list the input directory
VrmStart ==
  /\ pipeline = "vrm" /\ phase = "start"
  /\ LET input_dir == ProjectRoot \o Slash \o cfg.input_dir
         vrm_files == {f \in Glob(fs, input_dir, DotVrm) : ~vrm_filter(PathStem(f))}
     IN IF ~DirExists(fs, input_dir) \/ vrm_files = {}
        THEN phase' = "done" /\ queue' = <<>>
        ELSE phase' = "items" /\ queue' = SortPaths(vrm_files)
  /\ mode' = "scan"
  /\ UNCHANGED <<pipeline, cfg, fs0, fs, manifest, dirs, results, trace, scene, run,
                 prevResults, prevReport, report>>

VrmEntry(item, r) ==
  [item |-> item, outcome |-> r.outcome, calls |-> r.calls, raised |-> "",
   appended |-> Len(r.ret), input |-> r.input, output |-> r.output,
   ratio |-> r.ratio, warnings |-> r.warnings]

\* variant: only the Results with status success are appended
VrmFile_success_only ==
  /\ pipeline = "vrm" /\ phase = "items" /\ queue # <<>>
  /\ LET IsSuccess(x) == x.status = "success"
         apply(r) ==
           /\ results' = results \o SelectSeq(r.ret, IsSuccess)
           /\ trace' = Append(trace, VrmEntry(Head(queue), r))
           /\ fs' = r.fs
           /\ scene' = r.scene
     IN apply(process_vrm_file(fs, scene, Head(queue), cfg))
  /\ queue' = Tail(queue)
  /\ UNCHANGED <<pipeline, cfg, fs0, manifest, mode, dirs, phase, run, prevResults,
                 prevReport, report>>

\* main(): one iteration of "for vrm_file in sorted(vrm_files)"
VrmFile ==
  /\ pipeline = "vrm" /\ phase = "items" /\ queue # <<>>
  /\ LET apply(r) ==
           /\ results' = results \o r.ret
           /\ trace' = Append(trace, VrmEntry(Head(queue), r))
           /\ fs' = r.fs
           /\ scene' = r.scene
     IN apply(process_vrm_file(fs, scene, Head(queue), cfg))
  /\ queue' = Tail(queue)
  /\ UNCHANGED <<pipeline, cfg, fs0, manifest, mode, dirs, phase, run, prevResults,
                 prevReport, report>>

\* main(), lines 325-352: the summary
vrm_report(rs) ==
  LET ok(r)    == r.status = "success"
      bad(r)   == r.status = "error"
      dry(r)   == r.status = "dry-run"
      succ     == SelectSeq(rs, ok)
      failed   == SelectSeq(rs, bad)
  IN [total      |-> Len(rs),
      successful |-> Len(succ),
      failed     |-> Len(failed),
      dry_runs   |-> Len(SelectSeq(rs, dry)),
      total_original |-> SumSeq([i \in 1..Len(succ) |-> succ[i].original_triangles]),
      total_final    |-> SumSeq([i \in 1..Len(succ) |-> succ[i].final_triangles]),
      failed_files   |-> [i \in 1..Len(failed) |->
                            [file |-> failed[i].file,
                             error |-> IF "error" \in DOMAIN failed[i]
                                       THEN failed[i].error ELSE "Unknown error"]]]

VrmSummary ==
  /\ pipeline = "vrm" /\ phase = "items" /\ queue = <<>>
  /\ report' = <<vrm_report(results)>>
  /\ phase' = "done"
  /\ UNCHANGED <<pipeline, cfg, fs0, fs, manifest, mode, dirs, queue, results, trace,
                 scene, run, prevResults, prevReport>>

(***************************************************************************)
(* optimize-avatars.py                                                     *)
(***************************************************************************)
color_max_size == 2048

normal_max_size == 1024

lod0_triangles == 20000

lod1_triangles == 8000

lod2_triangles == 2000

av_part_threshold == 100

AnyIn(s, subs) == \E x \in subs : Contains(s, x)

\* variant: a linked texture never falls back to its file name
categorize_texture_socket_only(t) ==
  LET by_name(name) ==
        IF AnyIn(name, {<<"_", "d">>, <<"d", "i", "f", "f", "u", "s", "e">>, <<"c", "o", "l", "o", "r">>, <<"a", "l", "b", "e", "d", "o">>, <<"b", "a", "s", "e">>}) THEN "color"
        ELSE IF AnyIn(name, {<<"_", "n">>, <<"n", "o", "r", "m", "a", "l">>, <<"n", "o", "r", "m">>}) THEN "normal"
        ELSE IF AnyIn(name, {<<"_", "m">>, <<"m", "e", "t", "a", "l">>, <<"m", "e", "t", "a", "l", "l", "i", "c">>}) THEN "metallic"
        ELSE IF AnyIn(name, {<<"_", "r">>, <<"r", "o", "u", "g", "h">>, <<"r", "o", "u", "g", "h", "n", "e", "s", "s">>}) THEN "roughness"
        ELSE "unknown"
      by_socket(to_socket) ==
        IF AnyIn(to_socket, {<<"c", "o", "l", "o", "r">>, <<"b", "a", "s", "e">>, <<"d", "i", "f", "f", "u", "s", "e">>}) THEN "color"
        ELSE IF Contains(to_socket, <<"n", "o", "r", "m", "a", "l">>) THEN "normal"
        ELSE IF AnyIn(to_socket, {<<"m", "e", "t", "a", "l", "l", "i", "c">>, <<"m", "e", "t", "a", "l">>}) THEN "metallic"
        ELSE IF AnyIn(to_socket, {<<"r", "o", "u", "g", "h", "n", "e", "s", "s">>, <<"r", "o", "u", "g", "h">>}) THEN "roughness"
        ELSE IF AnyIn(to_socket, {<<"e", "m", "i", "s", "s", "i", "o", "n">>, <<"e", "m", "i", "s", "s", "i", "v", "e">>}) THEN "emissive"
        ELSE IF AnyIn(to_socket, {<<"o", "c", "c", "l", "u", "s", "i", "o", "n">>, <<"a", "o">>}) THEN "ao"
        ELSE "none"
      pick(socket_type) ==
        IF t.socket # <<>>
        THEN (IF socket_type # "none" THEN socket_type ELSE "unknown")
        ELSE by_name(Lower(t.name))
  IN pick(by_socket(Lower(t.socket)))

\* categorize_texture(node, material)
categorize_texture(t) ==
  LET by_name(name) ==
        IF AnyIn(name, {<<"_", "d">>, <<"d", "i", "f", "f", "u", "s", "e">>, <<"c", "o", "l", "o", "r">>, <<"a", "l", "b", "e", "d", "o">>, <<"b", "a", "s", "e">>}) THEN "color"
        ELSE IF AnyIn(name, {<<"_", "n">>, <<"n", "o", "r", "m", "a", "l">>, <<"n", "o", "r", "m">>}) THEN "normal"
        ELSE IF AnyIn(name, {<<"_", "m">>, <<"m", "e", "t", "a", "l">>, <<"m", "e", "t", "a", "l", "l", "i", "c">>}) THEN "metallic"
        ELSE IF AnyIn(name, {<<"_", "r">>, <<"r", "o", "u", "g", "h">>, <<"r", "o", "u", "g", "h", "n", "e", "s", "s">>}) THEN "roughness"
        ELSE "unknown"
      by_socket(to_socket) ==
        IF AnyIn(to_socket, {<<"c", "o", "l", "o", "r">>, <<"b", "a", "s", "e">>, <<"d", "i", "f", "f", "u", "s", "e">>}) THEN "color"
        ELSE IF Contains(to_socket, <<"n", "o", "r", "m", "a", "l">>) THEN "normal"
        ELSE IF AnyIn(to_socket, {<<"m", "e", "t", "a", "l", "l", "i", "c">>, <<"m", "e", "t", "a", "l">>}) THEN "metallic"
        ELSE IF AnyIn(to_socket, {<<"r", "o", "u", "g", "h", "n", "e", "s", "s">>, <<"r", "o", "u", "g", "h">>}) THEN "roughness"
        ELSE IF AnyIn(to_socket, {<<"e", "m", "i", "s", "s", "i", "o", "n">>, <<"e", "m", "i", "s", "s", "i", "v", "e">>}) THEN "emissive"
        ELSE IF AnyIn(to_socket, {<<"o", "c", "c", "l", "u", "s", "i", "o", "n">>, <<"a", "o">>}) THEN "ao"
        ELSE "none"
      pick(socket_type) ==
        IF t.socket # <<>> /\ socket_type # "none" THEN socket_type
        ELSE by_name(Lower(t.name))
  IN pick(by_socket(Lower(t.socket)))

\* resize_image(image, max_size): the image afterwards
resize_image(t, max_size) ==
  IF t.w <= max_size /\ t.h <= max_size THEN t
  ELSE IF t.w > t.h
       THEN [t EXCEPT !.w = max_size, !.h = (max_size * t.h) \div t.w]
       ELSE [t EXCEPT !.h = max_size, !.w = (max_size * t.w) \div t.h]

\* optimize_textures(): the textures kept, and the two lists it returns
RECURSIVE optimize_textures(_)
optimize_textures(tex) ==
  IF tex = <<>> THEN [tex |-> <<>>, removed |-> <<>>, resized |-> <<>>]
  ELSE LET t == Head(tex)
           step(rest, tex_type, scaled) ==
             IF tex_type \in {"metallic", "roughness", "ao", "unknown"}
             THEN [rest EXCEPT !.removed = <<[name |-> t.name, type |-> tex_type]>> \o @]
             ELSE [tex     |-> <<scaled>> \o rest.tex,
                   removed |-> rest.removed,
                   resized |-> (IF scaled # t
                                THEN <<[name |-> t.name, from |-> <<t.w, t.h>>,
                                        to |-> <<scaled.w, scaled.h>>]>>
                                ELSE <<>>) \o rest.resized]
           sized(rest, tex_type) ==
             step(rest, tex_type,
                  resize_image(t, IF tex_type = "color" THEN color_max_size
                                  ELSE normal_max_size))
       IN sized(optimize_textures(Tail(tex)), categorize_texture(t))

TriangulateCall == [op |-> "triangulate"]

\* triangulate_meshes(): one modifier per mesh object
triangulate_calls(objs) ==
  Flatten([i \in 1..Len(objs) |->
             IF objs[i].type = "MESH" THEN <<TriangulateCall>> ELSE <<>>])

\* decimate_to_target, body of the loop for one object
av_decimate_one(obj, target_ratio) ==
  LET call == DecimateCall(obj.verts, target_ratio, target_ratio, 0)
  IN IF obj.type # "MESH" \/ obj.verts < av_part_threshold
     THEN [obj |-> obj, calls |-> <<>>, warnings |-> 0]
     ELSE IF ModifierApplyRaises(obj)
          THEN [obj |-> obj, calls |-> <<call>>, warnings |-> 1]
          ELSE [obj |-> ModifierApply(obj, target_ratio), calls |-> <<call>>, warnings |-> 0]

\* decimate_to_target(target_triangles)
decimate_to_target(objs, target_triangles) ==
  LET current_tris == get_mesh_stats(objs).triangles
      target_ratio == Rat(target_triangles, current_tris)
      d == [i \in 1..Len(objs) |-> av_decimate_one(objs[i], target_ratio)]
  IN IF current_tris <= target_triangles
     THEN [objs |-> objs, calls |-> <<>>, warnings |-> 0]
     ELSE [objs     |-> [i \in 1..Len(objs) |-> d[i].obj],
           calls    |-> Flatten([i \in 1..Len(objs) |-> d[i].calls]),
           warnings |-> SumSeq([i \in 1..Len(objs) |-> d[i].warnings])]

\* process_avatar / main: already-processed check
av_filter(stem) ==
  AnyIn(Lower(stem), {M_optimized, M_lod1, M_lod2})

\* variant: the block exports under --dry-run too
av_variant_dry_run_ignored(fsys, input_path, out_path, target_triangles, c, decimate) ==
  LET content == fsys[input_path]
      importCalls == <<ClearCall, ImportCall(input_path)>>
      texd   == IF c.lod_only
                THEN [tex |-> content.tex, removed |-> <<>>, resized |-> <<>>]
                ELSE optimize_textures(content.tex)
      texCalls == IF c.lod_only THEN <<>> ELSE <<[op |-> "textures"]>>
      dec    == IF decimate THEN decimate_to_target(content.objs, target_triangles)
                ELSE [objs |-> content.objs, calls |-> <<>>, warnings |-> 0]
      \* the block once the textures (t) and the meshes (d) have been worked on
      finish(t, d) ==
        LET work == importCalls \o texCalls \o triangulate_calls(content.objs) \o d.calls
            done == [imported |-> TRUE, fs |-> fsys, scene |-> Scene(d.objs, t.tex),
                     calls |-> work, original |-> get_mesh_stats(content.objs),
                     stats |-> get_mesh_stats(d.objs), removed |-> t.removed,
                     resized |-> t.resized, exported |-> FALSE, export_failed |-> FALSE,
                     warnings |-> d.warnings]
            tried == [done EXCEPT !.calls = @ \o <<ExportCall(out_path)>>]
        IN IF ExportRaises(out_path)
           THEN [tried EXCEPT !.export_failed = TRUE]
           ELSE [tried EXCEPT !.exported = TRUE,
                              !.fs = (out_path :> AvatarContent(d.objs, t.tex)) @@ fsys]
  IN IF ImportRaises(fsys, input_path)
     THEN [imported |-> FALSE, fs |-> fsys, scene |-> EmptyScene, calls |-> importCalls,
           original |-> get_mesh_stats(<<>>), stats |-> get_mesh_stats(<<>>),
           removed |-> <<>>, resized |-> <<>>, exported |-> FALSE,
           export_failed |-> FALSE, warnings |-> 0]
     ELSE finish(texd, dec)

\* one of the three blocks of process_avatar: import, textures, triangulate,
\* decimate, export
av_variant(fsys, input_path, out_path, target_triangles, c, decimate) ==
  LET content == fsys[input_path]
      importCalls == <<ClearCall, ImportCall(input_path)>>
      texd   == IF c.lod_only
                THEN [tex |-> content.tex, removed |-> <<>>, resized |-> <<>>]
                ELSE optimize_textures(content.tex)
      texCalls == IF c.lod_only THEN <<>> ELSE <<[op |-> "textures"]>>
      dec    == IF decimate THEN decimate_to_target(content.objs, target_triangles)
                ELSE [objs |-> content.objs, calls |-> <<>>, warnings |-> 0]
      \* the block once the textures (t) and the meshes (d) have been worked on
      finish(t, d) ==
        LET work == importCalls \o texCalls \o triangulate_calls(content.objs) \o d.calls
            done == [imported |-> TRUE, fs |-> fsys, scene |-> Scene(d.objs, t.tex),
                     calls |-> work, original |-> get_mesh_stats(content.objs),
                     stats |-> get_mesh_stats(d.objs), removed |-> t.removed,
                     resized |-> t.resized, exported |-> FALSE, export_failed |-> FALSE,
                     warnings |-> d.warnings]
            tried == [done EXCEPT !.calls = @ \o <<ExportCall(out_path)>>]
        IN IF c.dry_run THEN done
           ELSE IF ExportRaises(out_path)
                THEN [tried EXCEPT !.export_failed = TRUE]
                ELSE [tried EXCEPT !.exported = TRUE,
                                   !.fs = (out_path :> AvatarContent(d.objs, t.tex)) @@ fsys]
  IN IF ImportRaises(fsys, input_path)
     THEN [imported |-> FALSE, fs |-> fsys, scene |-> EmptyScene, calls |-> importCalls,
           original |-> get_mesh_stats(<<>>), stats |-> get_mesh_stats(<<>>),
           removed |-> <<>>, resized |-> <<>>, exported |-> FALSE,
           export_failed |-> FALSE, warnings |-> 0]
     ELSE finish(texd, dec)

\* the entry results["lodN"] written after a successful export
LodEntry(v, path) ==
  IF v.exported
  THEN <<[path |-> path, triangles |-> v.stats.triangles, vertices |-> v.stats.vertices]>>
  ELSE <<>>

\* a block that is not run
av_skipped(fsys, scn) ==
  [imported |-> TRUE, fs |-> fsys, scene |-> scn, calls |-> <<>>,
   original |-> get_mesh_stats(<<>>), stats |-> get_mesh_stats(<<>>),
   removed |-> <<>>, resized |-> <<>>, exported |-> FALSE, export_failed |-> FALSE,
   warnings |-> 0]

\* process_avatar(input_path, output_dir)
process_avatar(fsys, scn, input_path, output_dir, c) ==
  LET filename  == PathStem(input_path)
      name      == PathName(input_path)
      lod0_path == output_dir \o Slash \o filename \o DotVrm
      lod1_path == output_dir \o Slash \o filename \o M_lod1 \o DotVrm
      lod2_path == output_dir \o Slash \o filename \o M_lod2 \o DotVrm
      run0 == ~c.lod_only \/ ~c.texture_only
      runN == ~c.texture_only
      block0 == IF run0
                THEN av_variant(fsys, input_path, lod0_path, lod0_triangles, c, ~c.texture_only)
                ELSE av_skipped(fsys, scn)
      block1(v0) == IF runN
                    THEN av_variant(v0.fs, input_path, lod1_path, lod1_triangles, c, TRUE)
                    ELSE av_skipped(v0.fs, v0.scene)
      block2(v1) == IF runN
                    THEN av_variant(v1.fs, input_path, lod2_path, lod2_triangles, c, TRUE)
                    ELSE av_skipped(v1.fs, v1.scene)
      pending == [file |-> name, status |-> "pending", lod0 |-> <<>>, lod1 |-> <<>>,
                  lod2 |-> <<>>, textures_removed |-> <<>>, textures_resized |-> <<>>]
      out(res, v, calls, outcome, nfail, warn) ==
        [ret |-> res, fs |-> v.fs, scene |-> v.scene, calls |-> calls,
         outcome |-> outcome, input |-> input_path,
         outputs |-> <<lod0_path, lod1_path, lod2_path>>,
         export_failures |-> nfail, warnings |-> warn]
      fails(v) == IF v.export_failed THEN 1 ELSE 0
      \* the Result, given the outcome of the three blocks
      result(v0, v1, v2) ==
        LET after0 == [pending EXCEPT !.lod0 = LodEntry(v0, lod0_path),
                                      !.textures_removed = v0.removed,
                                      !.textures_resized = v0.resized]
            after1 == [after0 EXCEPT !.lod1 = LodEntry(v1, lod1_path)]
            after2 == [after1 EXCEPT !.lod2 = LodEntry(v2, lod2_path)]
        IN IF ~v0.imported
           THEN out(<<[pending EXCEPT !.status = "error"] @@ [error |-> "Import failed"]>>,
                    v0, v0.calls, "import_failed", 0, 0)
           ELSE IF ~v1.imported
           THEN out(<<[after0 EXCEPT !.status = "error"]>>, v1, v0.calls \o v1.calls,
                    "import_failed", fails(v0), v0.warnings)
           ELSE IF ~v2.imported
           THEN out(<<[after1 EXCEPT !.status = "error"]>>, v2,
                    v0.calls \o v1.calls \o v2.calls, "import_failed",
                    fails(v0) + fails(v1), v0.warnings + v1.warnings)
           ELSE out(<<[after2 EXCEPT !.status = "success"]>>, v2,
                    v0.calls \o v1.calls \o v2.calls,
                    IF c.dry_run THEN "dry_run" ELSE "processed",
                    fails(v0) + fails(v1) + fails(v2),
                    v0.warnings + v1.warnings + v2.warnings)
      after_block1(v0, v1) == result(v0, v1, block2(v1))
      after_block0(v0) == after_block1(v0, block1(v0))
  IN IF av_filter(filename)
     THEN out(<<>>, av_skipped(fsys, scn), <<>>, "marker", 0, 0)
     ELSE after_block0(block0)

AvatarsInit ==
  /\ pipeline = "avatars"
  /\ manifest = <<>>
  /\ \E S \in SUBSET DOMAIN AvatarUniverse :
       /\ Cardinality(S) <= MaxFiles
       /\ fs = Restrict(AvatarUniverse, S)
  /\ cfg \in [dry_run : BOOLEAN, lod_only : BOOLEAN, texture_only : BOOLEAN,
              input_dir : {<<"a", "v", "a", "t", "a", "r", "s">>}, output_dir : {<<>>, <<"o", "u", "t">>, <<"r", "o">>},
              single_file : {<<>>, <<"n", "p", "c", "_", "L", "O", "D", "1", ".", "v", "r", "m">>}]

\* main(), lines 560-590: find the files to process
AvatarsStart ==
  /\ pipeline = "avatars" /\ phase = "start"
  /\ LET input_dir   == ProjectRoot \o Slash \o cfg.input_dir
         single_path == input_dir \o Slash \o cfg.single_file
         vrm_files   == {f \in Glob(fs, input_dir, DotVrm) : ~av_filter(PathStem(f))}
     IN IF ~DirExists(fs, input_dir) THEN phase' = "done" /\ queue' = <<>>
        ELSE IF cfg.single_file # <<>>
        THEN IF single_path \notin DOMAIN fs
             THEN phase' = "done" /\ queue' = <<>>
             ELSE phase' = "items" /\ queue' = <<single_path>>
        ELSE IF vrm_files = {} THEN phase' = "done" /\ queue' = <<>>
        ELSE phase' = "items" /\ queue' = SortPaths(vrm_files)
  /\ mode' = IF cfg.single_file # <<>> THEN "single" ELSE "scan"
  /\ UNCHANGED <<pipeline, cfg, fs0, fs, manifest, dirs, results, trace, scene, run,
                 prevResults, prevReport, report>>

AvatarsEntry(item, r) ==
  [item |-> item, outcome |-> r.outcome, calls |-> r.calls, raised |-> "",
   appended |-> Len(r.ret), input |-> r.input, outputs |-> r.outputs,
   export_failures |-> r.export_failures, warnings |-> r.warnings]

\* main(): one iteration of "for vrm_file in sorted(vrm_files)"
AvatarsFile ==
  /\ pipeline = "avatars" /\ phase = "items" /\ queue # <<>>
  /\ LET output_dir == ProjectRoot \o Slash \o
                       (IF cfg.output_dir # <<>> THEN cfg.output_dir ELSE cfg.input_dir)
         apply(r) ==
           /\ results' = results \o r.ret
           /\ trace' = Append(trace, AvatarsEntry(Head(queue), r))
           /\ fs' = r.fs
           /\ scene' = r.scene
     IN apply(process_avatar(fs, scene, Head(queue), output_dir, cfg))
  /\ queue' = Tail(queue)
  /\ UNCHANGED <<pipeline, cfg, fs0, manifest, mode, dirs, phase, run, prevResults,
                 prevReport, report>>

\* main(), lines 598-626: the summary
avatars_report(rs) ==
  LET ok(r)  == r.status = "success"
      bad(r) == r.status = "error"
      succ   == SelectSeq(rs, ok)
      failed == SelectSeq(rs, bad)
      tris(e) == IF e = <<>> THEN <<>> ELSE <<e[1].triangles>>
  IN [total      |-> Len(rs),
      successful |-> Len(succ),
      failed     |-> Len(failed),
      generated  |-> [i \in 1..Len(succ) |->
                        [file |-> succ[i].file, lod0 |-> tris(succ[i].lod0),
                         lod1 |-> tris(succ[i].lod1), lod2 |-> tris(succ[i].lod2)]],
      failed_files |-> [i \in 1..Len(failed) |->
                          [file |-> failed[i].file,
                           error |-> IF "error" \in DOMAIN failed[i]
                                     THEN failed[i].error ELSE "Unknown error"]]]

AvatarsSummary ==
  /\ pipeline = "avatars" /\ phase = "items" /\ queue = <<>>
  /\ report' = <<avatars_report(results)>>
  /\ phase' = "done"
  /\ UNCHANGED <<pipeline, cfg, fs0, fs, manifest, mode, dirs, queue, results, trace,
                 scene, run, prevResults, prevReport>>

(***************************************************************************)
(* decimate-vegetation.py                                                  *)
(***************************************************************************)
min_faces == 100

target_max_faces == 5000

get_face_count(obj) == IF obj.type # "MESH" THEN 0 ELSE obj.tris

total_faces_of(objs) == SumSeq([i \in 1..Len(objs) |-> get_face_count(objs[i])])

\* decimate_mesh(obj, ratio) of decimate-vegetation.py
veg_decimate_mesh(obj, ratio) ==
  LET noop == [obj |-> obj, calls |-> <<>>, raised |-> FALSE]
      call == DecimateCall(obj.verts, ratio, ratio, 0)
  IN IF obj.type # "MESH" THEN noop
     ELSE IF RatLE(One, ratio) THEN noop
     ELSE IF get_face_count(obj) < min_faces THEN noop
     ELSE IF ModifierApplyRaises(obj)
          THEN [obj |-> obj, calls |-> <<call>>, raised |-> TRUE]
          ELSE [obj |-> ModifierApply(obj, ratio), calls |-> <<call>>, raised |-> FALSE]

RECURSIVE veg_decimate_all(_, _)
veg_decimate_all(objs, ratio) ==
  IF objs = <<>> THEN [objs |-> <<>>, calls |-> <<>>, raised |-> FALSE]
  ELSE LET d == veg_decimate_mesh(Head(objs), ratio)
       IN IF d.raised
          THEN [objs |-> <<d.obj>> \o Tail(objs), calls |-> d.calls, raised |-> TRUE]
          ELSE LET rest == veg_decimate_all(Tail(objs), ratio)
               IN [objs   |-> <<d.obj>> \o rest.objs,
                   calls  |-> d.calls \o rest.calls,
                   raised |-> rest.raised]

M_LOD == <<"_", "L", "O", "D">>

\* the loop "for lod_idx, ratio in enumerate(CONFIG['lod_ratios'])" of
\* process_glb_file, from index lod_idx (0-based) on
RECURSIVE veg_variants(_, _, _, _, _, _)
veg_variants(fsys, input_path, out_dir, total_faces, c, lod_idx) ==
  IF lod_idx >= Len(c.lod_ratios)
  THEN [fs |-> fsys, scene |-> EmptyScene, calls |-> <<>>, raised |-> "", outputs |-> <<>>]
  ELSE
    LET ratio        == c.lod_ratios[lod_idx + 1]
        importCalls  == <<ClearCall, ImportCall(input_path)>>
        objects      == fsys[input_path].objs
        actual_ratio == IF total_faces > target_max_faces /\ RatEq(ratio, One)
                        THEN Rat(target_max_faces, total_faces) ELSE ratio
        dec          == veg_decimate_all(objects, actual_ratio)
        output_path  == IF Len(c.lod_ratios) > 1
                        THEN out_dir \o Slash \o PathStem(input_path) \o M_LOD \o
                             <<Digits[lod_idx + 1]>> \o DotGlb
                        ELSE out_dir \o Slash \o PathStem(input_path) \o DotGlb
        written      == (output_path :> GlbContent(dec.objs)) @@ fsys
        rest         == veg_variants(written, input_path, out_dir, total_faces, c, lod_idx + 1)
    IN IF ImportRaises(fsys, input_path)
       THEN [fs |-> fsys, scene |-> EmptyScene, calls |-> importCalls,
             raised |-> "RuntimeError", outputs |-> <<>>]
       ELSE IF dec.raised
       THEN [fs |-> fsys, scene |-> Scene(dec.objs, <<>>),
             calls |-> importCalls \o dec.calls, raised |-> "RuntimeError",
             outputs |-> <<>>]
       ELSE IF ExportRaises(output_path)
       THEN [fs |-> fsys, scene |-> Scene(dec.objs, <<>>),
             calls |-> importCalls \o dec.calls \o <<ExportCall(output_path)>>,
             raised |-> "OSError", outputs |-> <<>>]
       ELSE [fs      |-> rest.fs,
             scene   |-> IF lod_idx + 1 >= Len(c.lod_ratios) \/ rest.calls = <<>>
                         THEN Scene(dec.objs, <<>>) ELSE rest.scene,
             calls   |-> importCalls \o dec.calls \o <<ExportCall(output_path)>> \o rest.calls,
             raised  |-> rest.raised,
             outputs |-> <<output_path>> \o rest.outputs]

\* process_glb_file(input_path, output_dir) of decimate-vegetation.py
veg_process_glb_file(fsys, scn, input_path, out_dir, c) ==
  LET importCalls == <<ClearCall, ImportCall(input_path)>>
      objects     == fsys[input_path].objs
      total_faces == total_faces_of(objects)
      base        == [fs |-> fsys, scene |-> EmptyScene, calls |-> importCalls,
                      raised |-> "", outcome |-> "no_objects", input |-> input_path,
                      outputs |-> <<>>]
      \* after the loop over the LOD ratios
      processed(v) ==
        [fs |-> v.fs, scene |-> v.scene, calls |-> importCalls \o v.calls,
         raised |-> v.raised,
         outcome |-> IF v.raised # "" THEN "raised" ELSE "processed",
         input |-> input_path, outputs |-> v.outputs]
  IN IF ImportRaises(fsys, input_path)
     THEN [base EXCEPT !.raised = "RuntimeError", !.outcome = "raised"]
     ELSE IF objects = <<>> THEN base
     ELSE IF c.dry_run
     THEN [base EXCEPT !.scene = Scene(objects, <<>>), !.outcome = "dry_run"]
     ELSE processed(veg_variants(fsys, input_path, out_dir, total_faces, c, 0))

\* vegetation files the decimate-vegetation runs are tried on
VegUniverse ==
  (<<"/", "p", "/", "v", "e", "g", "/", "b", "u", "s", "h", ".", "g", "l", "b">> :> GlbContent(<<MeshObj(1010), ArmatureObj>>)) @@
  (<<"/", "p", "/", "v", "e", "g", "/", "b", "i", "g", "_", "L", "O", "D", "1", ".", "g", "l", "b">> :> GlbContent(<<MeshObj(3000)>>)) @@
  (<<"/", "p", "/", "v", "e", "g", "/", "s", "u", "b", "/", "t", "w", "i", "g", ".", "g", "l", "b">> :> GlbContent(<<MeshObj(40)>>)) @@
  (<<"/", "p", "/", "v", "e", "g", "/", "e", "m", "p", "t", "y", ".", "g", "l", "b">> :> GlbContent(<<>>)) @@
  (<<"/", "p", "/", "v", "e", "g", "/", "i", "v", "y", ".", "g", "l", "b">> :> [objs |-> <<MeshObj(800)>>, corrupt |-> TRUE, tex |-> <<>>]) @@
  (<<"/", "p", "/", "v", "e", "g", "/", "s", "t", "o", "n", "e", ".", "g", "l", "b">> :> GlbContent(<<KeyedMeshObj(400)>>))

VegInit ==
  /\ pipeline = "veg"
  /\ manifest = <<>>
  /\ \E S \in SUBSET DOMAIN VegUniverse :
       /\ Cardinality(S) <= MaxFiles
       /\ fs = Restrict(VegUniverse, S)
  /\ cfg \in [dry_run : BOOLEAN, in_place : BOOLEAN,
              lod_ratios : {<<Rat(1, 1), Rat(1, 2), Rat(1, 4)>>, <<Rat(1, 2)>>},
              input_dir : {<<"v", "e", "g">>}, output_dir : {<<"v", "e", "g", "o", "p", "t">>, <<"r", "o">>}]

veg_input_dir(c) == ProjectRoot \o Slash \o c.input_dir

\* variant: the outputs always go to the input directory
veg_output_dir_always_input(c) == veg_input_dir(c)

\* OUTPUT_DIR, line 73
veg_output_dir(c) ==
  IF c.in_place THEN veg_input_dir(c) ELSE ProjectRoot \o Slash \o c.output_dir

\* process_directory, lines 249-268: list the input directory
VegStart ==
  /\ pipeline = "veg" /\ phase = "start"
  /\ LET glb_files == RGlob(fs, veg_input_dir(cfg), DotGlb)
     IN IF ~DirExists(fs, veg_input_dir(cfg)) \/ glb_files = {}
        THEN phase' = "done" /\ queue' = <<>>
        ELSE phase' = "items" /\ queue' = SortPaths(glb_files)
  /\ mode' = "scan"
  /\ UNCHANGED <<pipeline, cfg, fs0, fs, manifest, dirs, results, trace, scene, run,
                 prevResults, prevReport, report>>

VegEntry(item, r) ==
  [item |-> item, outcome |-> r.outcome, calls |-> r.calls, raised |-> r.raised,
   appended |-> 0, input |-> r.input, outputs |-> r.outputs]

\* process_directory: one iteration of "for glb_file in sorted(glb_files)"
VegFile ==
  /\ pipeline = "veg" /\ phase = "items" /\ queue # <<>>
  /\ LET glb_file == Head(queue)
         in_root  == veg_input_dir(cfg)
         \* output_path / rel_path.parent
         out_dir  == veg_output_dir(cfg) \o
                     SubSeq(PathParent(glb_file), Len(in_root) + 1, Len(PathParent(glb_file)))
         apply(r) ==
           /\ trace' = Append(trace, VegEntry(glb_file, r))
           /\ fs' = r.fs
           /\ scene' = r.scene
           /\ phase' = IF r.raised # "" THEN "crashed" ELSE phase
     IN apply(veg_process_glb_file(fs, scene, glb_file, out_dir, cfg))
  /\ queue' = Tail(queue)
  /\ UNCHANGED <<pipeline, cfg, fs0, manifest, mode, dirs, results, run, prevResults,
                 prevReport, report>>

\* process_directory, line 278: "Done! Processed N files."
VegSummary ==
  /\ pipeline = "veg" /\ phase = "items" /\ queue = <<>>
  /\ report' = <<[count |-> Len(trace)]>>
  /\ phase' = "done"
  /\ UNCHANGED <<pipeline, cfg, fs0, fs, manifest, mode, dirs, queue, results, trace,
                 scene, run, prevResults, prevReport>>

(***************************************************************************)
(* Running the same command a second time on what the first run left       *)
(***************************************************************************)
Rerun ==
  /\ phase \in {"done", "crashed"} /\ run = 1
  /\ run' = 2
  /\ prevResults' = results
  /\ prevReport' = report
  /\ mode' = "" /\ dirs' = <<>> /\ phase' = "start" /\ queue' = <<>>
  /\ results' = <<>> /\ trace' = <<>> /\ scene' = EmptyScene /\ report' = <<>>
  /\ UNCHANGED <<pipeline, cfg, fs0, fs, manifest>>

Init ==
  /\ (BakeInit \/ VrmInit \/ AvatarsInit \/ VegInit)
  /\ FreshRun
  /\ fs0 = fs
  /\ run = 1 /\ prevResults = <<>> /\ prevReport = <<>>

Next ==
  \/ BakeStart
  \/ BakeScanDir
  \/ BakeScanFile
  \/ BakeListFile
  \/ BakeMultiFile
  \/ BakeSummary
  \/ VrmStart
  \/ VrmFile
  \/ VrmSummary
  \/ AvatarsStart
  \/ AvatarsFile
  \/ AvatarsSummary
  \/ VegStart
  \/ VegFile
  \/ VegSummary
  \/ Rerun

Spec == Init /\ [][Next]_vars

(***************************************************************************)
(* Direct calls: process_glb_file(path, lod1 / lod2, target_ratio) and     *)
(* process_vrm_file(path) on one asset, over a range of part sizes,        *)
(* categories and ratios                                                   *)
(***************************************************************************)
PolicyPaths ==
  { <<"/", "p", "/", "a", "/", "t", "r", "e", "e", ".", "g", "l", "b">>, <<"/", "p", "/", "a", "/", "f", "a", "l", "l", "e", "n", "_", "t", "r", "e", "e", ".", "g", "l", "b">>, <<"/", "p", "/", "a", "/", "b", "u", "s", "h", ".", "g", "l", "b">>, <<"/", "p", "/", "a", "/", "r", "o", "c", "k", ".", "g", "l", "b">>,
    <<"/", "p", "/", "a", "/", "f", "e", "r", "n", ".", "g", "l", "b">>, <<"/", "p", "/", "a", "/", "f", "l", "o", "w", "e", "r", ".", "g", "l", "b">>, <<"/", "p", "/", "a", "/", "g", "r", "a", "s", "s", ".", "g", "l", "b">>, <<"/", "p", "/", "a", "/", "m", "u", "s", "h", "r", "o", "o", "m", ".", "g", "l", "b">>,
    <<"/", "p", "/", "a", "/", "i", "v", "y", ".", "g", "l", "b">>, <<"/", "p", "/", "a", "/", "c", "r", "a", "t", "e", ".", "g", "l", "b">>,
    <<"/", "p", "/", "a", "/", "R", "o", "c", "k", "_", "B", "u", "s", "h", ".", "g", "l", "b">>, <<"/", "p", "/", "a", "/", "f", "a", "l", "l", "e", "n", "_", "l", "o", "g", ".", "g", "l", "b">>,
    <<"/", "p", "/", "a", "/", "i", "v", "y", "_", "g", "r", "a", "s", "s", ".", "g", "l", "b">> }

PartSizes == {99, 100, 199, 200, 201, 250, 333, 500, 1010, 10000}

\* target_ratio arguments: None, and ratios as parse_input_list yields them
Overrides ==
  { <<>>, Rat(5, 100), Rat(125, 1000), Rat(999, 1000), Rat(100, 100), Rat(150, 100),
    Rat(0, 100), Rat(-5, 100) }

\* values of --target-ratio, a float the command line does not validate
VrmRatios == {Rat(0, 1), Rat(6, 100), Rat(1, 4), Rat(1, 2), Rat(999, 1000), Rat(3, 2)}

\* values of --lod-ratios, a list of floats the command line does not validate
VegRatios ==
  {<<Rat(1, 1), Rat(1, 2), Rat(1, 4)>>, <<Rat(1, 2)>>, <<Rat(0, 1)>>,
   <<Rat(0 - 1, 2)>>, <<Rat(3, 2)>>}

VegPartSizes == {40, 49, 50, 1010, 3000}

PolicyVeg == <<"/", "p", "/", "v", "e", "g", "/", "b", "u", "s", "h", ".", "g", "l", "b">>

AvatarPartSizes == {99, 100, 4999, 5000, 5001, 6000, 20000, 30000}

\* shader inputs an image node is linked to (<<>>: not linked)
TexSockets ==
  { <<>>, <<"B", "a", "s", "e", " ", "C", "o", "l", "o", "r">>, <<"N", "o", "r", "m", "a", "l">>, <<"M", "e", "t", "a", "l", "l", "i", "c">>, <<"R", "o", "u", "g", "h", "n", "e", "s", "s">>, <<"E", "m", "i", "s", "s", "i", "o", "n">>,
    <<"O", "c", "c", "l", "u", "s", "i", "o", "n">>, <<"A", "l", "p", "h", "a">>, <<"E", "m", "i", "s", "s", "i", "o", "n", " ", "C", "o", "l", "o", "r">> }

TexNames == { <<"s", "k", "i", "n", "_", "d">>, <<"f", "a", "c", "e", "_", "n">>, <<"a", "r", "m", "_", "m">>, <<"l", "e", "g", "_", "r">>, <<"g", "l", "o", "w">>, <<"A", "l", "b", "e", "d", "o">> }

TexSizes == { <<1024, 1024>>, <<2048, 1024>>, <<4096, 4096>>, <<1000, 3000>> }

PolicyAvatar == <<"/", "p", "/", "a", "v", "a", "t", "a", "r", "s", "/", "x", ".", "v", "r", "m">>

PolicyInit ==
  /\ \/ /\ pipeline = "bake"
        /\ mode = "call"
        /\ \E p \in PolicyPaths, n \in PartSizes, t \in Overrides :
             /\ fs = (p :> GlbContent(<<MeshObj(n)>>))
             /\ queue = <<[path |-> p, level |-> L_lod1, target_percent |-> t],
                          [path |-> p, level |-> L_lod2, target_percent |-> t]>>
        /\ cfg = [dry_run |-> FALSE, temp_dir |-> <<>>, input_dirs |-> BakeInputDirs]
     \/ /\ pipeline = "vrm"
        /\ mode = "scan"
        /\ \E n \in AvatarPartSizes :
             fs = (<<"/", "p", "/", "a", "v", "a", "t", "a", "r", "s", "/", "x", ".", "v", "r", "m">> :> AvatarContent(<<MeshObj(n)>>, <<>>))
        /\ queue = << <<"/", "p", "/", "a", "v", "a", "t", "a", "r", "s", "/", "x", ".", "v", "r", "m">> >>
        /\ cfg \in [dry_run : {FALSE}, input_dir : {<<"a", "v", "a", "t", "a", "r", "s">>},
                    target_ratio : VrmRatios,
                    target_triangles : {0}, min_vertices : {vrm_min_vertices}]
     \/ /\ pipeline = "veg"
        /\ mode = "scan"
        /\ \E n \in VegPartSizes :
             fs = (PolicyVeg :> GlbContent(<<MeshObj(n)>>))
        /\ queue = <<PolicyVeg>>
        /\ cfg \in [dry_run : {FALSE}, in_place : {FALSE}, lod_ratios : VegRatios,
                    input_dir : {<<"v", "e", "g">>}, output_dir : {<<"v", "e", "g", "o", "p", "t">>}]
     \/ /\ pipeline = "avatars"
        /\ mode = "call"
        /\ \E so \in TexSockets, na \in TexNames, sz \in TexSizes, more \in {<<>>, <<TexMetal>>} :
             fs = (PolicyAvatar :>
                     AvatarContent(<<MeshObj(3000)>>, <<Texture(so, na, sz[1], sz[2])>> \o more))
        /\ queue = <<PolicyAvatar>>
        /\ cfg = [dry_run |-> TRUE, lod_only |-> FALSE, texture_only |-> TRUE,
                  input_dir |-> <<"a", "v", "a", "t", "a", "r", "s">>, output_dir |-> <<>>,
                  single_file |-> <<>>]
  /\ manifest = <<>> /\ dirs = <<>> /\ phase = "items"
  /\ results = <<>> /\ trace = <<>> /\ scene = EmptyScene /\ report = <<>>
  /\ fs0 = fs
  /\ run = 1 /\ prevResults = <<>> /\ prevReport = <<>>

\* a call process_glb_file(path, lod_level, target_ratio)
BakeCall ==
  /\ pipeline = "bake" /\ phase = "items" /\ mode = "call" /\ queue # <<>>
  /\ LET config == Head(queue)
     IN BakeApply(config,
                  process_glb_file(fs, scene, config.path, config.level,
                                   config.target_percent, cfg.dry_run))
  /\ UNCHANGED <<pipeline, cfg, fs0, manifest, mode, dirs, run, prevResults, prevReport, report>>

\* import_vrm(path) followed by optimize_textures(), as the LOD0 block of
\* process_avatar does
OptimizeTexturesCall ==
  /\ pipeline = "avatars" /\ phase = "items" /\ mode = "call" /\ queue # <<>>
  /\ LET apply(content, r) ==
           /\ scene' = Scene(content.objs, r.tex)
           /\ trace' = Append(trace,
                  [item |-> Head(queue), outcome |-> "textures",
                   calls |-> <<ClearCall, ImportCall(Head(queue)), [op |-> "textures"]>>,
                   raised |-> "", appended |-> 0, input |-> Head(queue),
                   before |-> content.tex, kept |-> r.tex,
                   removed |-> r.removed, resized |-> r.resized])
     IN apply(fs[Head(queue)], optimize_textures(fs[Head(queue)].tex))
  /\ queue' = Tail(queue)
  /\ UNCHANGED <<pipeline, cfg, fs0, fs, manifest, mode, dirs, phase, results, run,
                 prevResults, prevReport, report>>

PolicyNext ==
  \/ BakeCall
  \/ VrmFile
  \/ OptimizeTexturesCall
  \/ VegFile

SpecPolicy == PolicyInit /\ [][PolicyNext]_vars

(***************************************************************************)
(* Properties                                                              *)
(***************************************************************************)
IsDecimate(c) == c.op = "decimate"

IsExport(c) == c.op = "export"

IsImport(c) == c.op = "import"

DecCalls(e) == SelectSeq(e.calls, IsDecimate)

\* the entries of the trace that come from a call of the per-file function
Processed(e) == e.outcome \notin {"not_found", "filtered"}

\* the minimum-vertex floor of the policy an entry was processed under
PolicyFloor(e) == IF pipeline = "vrm" THEN cfg.min_vertices ELSE e.min_verts

HasResults == pipeline \in {"bake", "vrm", "avatars"}

Finished == phase \in {"done", "crashed"}

\* C5: whenever a mesh part is decimated under a policy (ratio, min_floor)
\* with 0 < ratio < 1, the vertex target asked of the engine (applied ratio
\* times the part's vertex count) is at least min_floor (bake-lod, decimate-vrm).
C5_FloorRespected ==
  pipeline \in {"bake", "vrm"} =>
    \A i \in 1..Len(trace) : \A k \in 1..Len(trace[i].calls) :
      LET e == trace[i]
          c == e.calls[k]
      IN (c.op = "decimate" /\ RatLT(Zero, e.ratio) /\ RatLT(e.ratio, One))
           => c.ratio[1] * c.verts >= PolicyFloor(e) * c.ratio[2]

\* a bake-lod part whose nominal target is below the floor has been decimated
C5_Witness ==
  /\ pipeline = "bake"
  /\ \E i \in 1..Len(trace) : \E k \in 1..Len(trace[i].calls) :
       LET e == trace[i]
           c == e.calls[k]
       IN /\ c.op = "decimate"
          /\ RatLT(Zero, e.ratio) /\ RatLT(e.ratio, One)
          /\ e.ratio[1] * c.verts < e.min_verts * e.ratio[2]
          /\ c.ratio[1] * c.verts = e.min_verts * c.ratio[2]

\* C6 as claimed: the ratio applied to the engine for a part equals
\* max(policy.ratio, policy.min_floor / current_count), for all ratios, floors
\* and counts.
C6_AppliedIsMax ==
  pipeline \in {"bake", "vrm"} =>
    \A i \in 1..Len(trace) : \A k \in 1..Len(trace[i].calls) :
      LET e == trace[i]
          c == e.calls[k]
      IN c.op = "decimate"
           => RatEq(c.ratio, RatMax(e.ratio, Rat(PolicyFloor(e), c.verts)))

\* C6 amended: bake-lod applies t / count where t is the whole vertex target
\* max(min_floor, floor(count * ratio)): never above max(ratio, floor/count)
\* and less than 1/count below it; decimate-vrm applies
\* max(ratio, min_floor/count) exactly; ratio 0.05, floor 100, count 500
\* gives exactly 0.2.
C6_AppliedIsTruncatedMax ==
  pipeline \in {"bake", "vrm"} =>
    \A i \in 1..Len(trace) : \A k \in 1..Len(trace[i].calls) :
      LET e  == trace[i]
          c  == e.calls[k]
          fl == PolicyFloor(e)
          mx == RatMax(e.ratio, Rat(fl, c.verts))
          t  == (c.ratio[1] * c.verts) \div c.ratio[2]
      IN c.op = "decimate" =>
           IF pipeline = "vrm" THEN RatEq(c.ratio, mx)
           ELSE /\ (c.ratio[1] * c.verts) % c.ratio[2] = 0
                /\ t >= fl
                /\ t > fl => /\ t * e.ratio[2] <= c.verts * e.ratio[1]
                             /\ (t + 1) * e.ratio[2] > c.verts * e.ratio[1]
                /\ t = fl => c.verts * e.ratio[1] < (fl + 1) * e.ratio[2]
                /\ RatLE(c.ratio, mx)
                /\ mx[1] * c.verts - t * mx[2] < mx[2]
                /\ (RatEq(e.ratio, Rat(5, 100)) /\ fl = 100 /\ c.verts = 500)
                     => RatEq(c.ratio, Rat(2, 10))

\* the example of the claim: ratio 0.05, floor 100, 500 vertices, applied 0.2
C6_Witness ==
  /\ pipeline = "bake"
  /\ \E i \in 1..Len(trace) : \E k \in 1..Len(trace[i].calls) :
       LET e == trace[i]
           c == e.calls[k]
       IN /\ c.op = "decimate"
          /\ RatEq(e.ratio, Rat(5, 100)) /\ e.min_verts = 100 /\ c.verts = 500
          /\ RatEq(c.ratio, Rat(2, 10))

NoOverride(e) == e.item.target_percent = <<>>

TierPair ==
  /\ pipeline = "bake" /\ mode = "call" /\ Len(trace) = 2
  /\ NoOverride(trace[1]) /\ NoOverride(trace[2])
  /\ trace[1].level = L_lod1 /\ trace[2].level = L_lod2

\* C9 as claimed: for every category the tier-2 policy is strictly less
\* detailed than the tier-1 policy and never has a higher floor:
\* ratio2 < ratio1 whenever ratio1 > 0, and floor2 <= floor1.
C9_Tier2BelowTier1 ==
  TierPair =>
    /\ RatLT(Zero, trace[1].ratio) => RatLT(trace[2].ratio, trace[1].ratio)
    /\ trace[2].min_verts <= trace[1].min_verts

\* C9 amended: ratio2 < ratio1 whenever ratio1 > 0; floor2 <= floor1 for
\* every category whose tier-1 floor is at least 20, and floor2 is never
\* above max(20, floor1); for flower the tier-1 floor is 10 and the tier-2
\* floor is 20.
C9_Tier2BelowTier1ExceptSmallFloor ==
  TierPair =>
    /\ RatLT(Zero, trace[1].ratio) => RatLT(trace[2].ratio, trace[1].ratio)
    /\ trace[1].min_verts >= 20 => trace[2].min_verts <= trace[1].min_verts
    /\ trace[2].min_verts <= Max(20, trace[1].min_verts)
    /\ trace[1].category = "flower" =>
         trace[1].min_verts = 10 /\ trace[2].min_verts = 20

\* both tiers of a flower have been resolved
C9_Witness ==
  /\ TierPair
  /\ trace[1].category = "flower"
  /\ trace[2].min_verts > trace[1].min_verts
  /\ RatLT(trace[2].ratio, trace[1].ratio)

\* C10: with an explicit override ratio the resolved ratio equals the
\* override exactly and the resolved floor equals the category's tier-1
\* table floor (the 'default' floor if the category has none), for both
\* tiers; the tier-2 halving of the floor is not applied.
C10_OverrideKeepsFloor ==
  (pipeline = "bake" /\ mode = "call") =>
    \A i \in 1..Len(trace) :
      LET e  == trace[i]
          f1 == CASE e.category = "tree" -> 100
                  [] e.category = "bush" -> 50
                  [] e.category = "rock" -> 30
                  [] e.category = "fern" -> 20
                  [] e.category = "flower" -> 10
                  [] e.category = "ivy" -> 20
                  [] e.category = "fallen" -> 80
                  [] OTHER -> 50
      IN ~NoOverride(e) =>
           /\ e.ratio = e.item.target_percent
           /\ e.min_verts = f1

\* a tier-2 item of a tree with an override has kept the floor 100
C10_Witness ==
  /\ pipeline = "bake" /\ mode = "call"
  /\ \E i \in 1..Len(trace) :
       /\ ~NoOverride(trace[i])
       /\ trace[i].level = L_lod2
       /\ trace[i].category = "tree"
       /\ trace[i].ratio = trace[i].item.target_percent
       /\ trace[i].min_verts = 100

C2_FailureNeverHalts ==
  ~(/\ phase = "crashed"
    /\ trace # <<>>
    /\ trace[Len(trace)].raised \in {"RuntimeError", "OSError"})

\* the derived markers of each pipeline's own outputs
HasDerivedMarker(stem) ==
  CASE pipeline = "bake"    -> Contains(Lower(stem), M_lod)
    [] pipeline = "vrm"     -> Contains(Lower(stem), M_optimized)
                                 \/ Contains(Lower(stem), M_lod)
    [] pipeline = "avatars" -> Contains(Lower(stem), M_optimized)
                                 \/ Contains(Lower(stem), M_lod)
    [] OTHER                -> Contains(stem, M_LOD)

\* C3: in every loader mode a file whose stem contains a derived marker never
\* reaches import, decimate or export and never contributes a Result, in
\* bake-lod and in the avatar and vegetation pipelines with respect to their
\* own derived outputs.
C3_DerivedNeverProcessed ==
  \A i \in 1..Len(trace) :
    HasDerivedMarker(PathStem(trace[i].input)) =>
      /\ \A k \in 1..Len(trace[i].calls) :
           trace[i].calls[k].op \notin {"import", "decimate", "export"}
      /\ trace[i].appended = 0

NoDerivedInitially ==
  \A p \in DOMAIN fs0 : ~HasDerivedMarker(PathStem(p))

SecondRunFinished == run = 2 /\ Finished

\* C4 as claimed: running the driver twice in a row over the same source
\* directory that initially holds no derived files yields the same sequence
\* of Results and the same report statistics in both runs.
C4_SecondRunSame ==
  (HasResults /\ NoDerivedInitially /\ SecondRunFinished) =>
    results = prevResults /\ report = prevReport

\* C4 amended: the two runs yield the same Results and the same report
\* statistics in bake-lod, in decimate-vrm, and in optimize-avatars when the
\* output directory is not the input directory; with the default output
\* directory optimize-avatars writes LOD0 over the source file, and the
\* second run starts from the optimized file.
C4_SecondRunSameUnlessOverwritten ==
  (/\ \/ pipeline \in {"bake", "vrm"}
      \/ pipeline = "avatars" /\ cfg.output_dir # <<>>
   /\ NoDerivedInitially /\ SecondRunFinished) =>
    results = prevResults /\ report = prevReport

\* a second bake-lod run has finished over the files the first run wrote
C4_Witness ==
  /\ pipeline = "bake" /\ mode = "scan"
  /\ NoDerivedInitially /\ SecondRunFinished
  /\ phase = "done"
  /\ results # <<>> /\ results = prevResults
  /\ \E p \in DOMAIN fs : p \notin DOMAIN fs0 /\ Contains(PathStem(p), M_lod1)

\* the trace entry i is the outcome of a call of bake-lod's process_glb_file
\* that got past the derived-marker guard
BakeResolved(i) ==
  /\ pipeline = "bake"
  /\ i \in 1..Len(trace)
  /\ Processed(trace[i])
  /\ trace[i].outcome # "marker"

\* C11: a resolved ratio of exactly 0 (the grass and mushroom table entries,
\* or an override of 0 percent) makes the item a skip and not an error:
\* nothing is imported, decimated or exported for it, no Result and no
\* failure is reported, the file system is left as it was, and the batch
\* goes on with the next item.
C11_ZeroRatioIsSkip ==
  \A i \in 1..Len(trace) :
    BakeResolved(i) =>
      LET e == trace[i]
          table == mode \in {"scan", "list"} \/ e.item.target_percent = <<>>
      IN /\ (table /\ e.category \in {"grass", "mushroom"}) => RatEq(e.ratio, Zero)
         /\ (~table /\ RatEq(e.item.target_percent, Zero)) => RatEq(e.ratio, Zero)
         /\ RatEq(e.ratio, Zero) =>
              /\ e.outcome = "zero_ratio"
              /\ e.calls = <<>>
              /\ e.appended = 0
              /\ e.raised = ""
              /\ i = Len(trace) => phase # "crashed"
              /\ e.output \in DOMAIN fs => e.output \in DOMAIN fs0

\* a run has skipped an item of ratio 0 and has then exported the next item
C11_Witness ==
  /\ pipeline = "bake"
  /\ \E i \in 1..(Len(trace) - 1) :
       /\ BakeResolved(i)
       /\ RatEq(trace[i].ratio, Zero)
       /\ trace[i].outcome = "zero_ratio"
       /\ trace[i + 1].outcome = "created"

\* the vertex total of the source asset of trace entry i
SourceTotal(i) == get_total_vertices(fs[trace[i].input].objs)

\* the too-small threshold of a tier: CONFIG["skip_threshold"] for lod1, half
\* of it for lod2
TierThreshold(level) ==
  IF level = L_lod1 THEN skip_threshold ELSE skip_threshold \div 2

\* entry i got as far as the too-small check: ratio above 0, objects imported
ReachedSizeCheck(i) ==
  /\ BakeResolved(i)
  /\ RatLT(Zero, trace[i].ratio)
  /\ ~ImportRaises(fs, trace[i].input)
  /\ fs[trace[i].input].objs # <<>>

\* C12: the too-small check is a strict less-than on the asset's total vertex
\* count: an asset whose total equals the skip threshold of its tier is
\* processed, not skipped, and an asset one vertex below it is skipped; the
\* per-part check of decimate_mesh is strict too: a part of exactly
\* skip_threshold vertices is decimated.
C12_StrictThreshold ==
  \A i \in 1..Len(trace) :
    ReachedSizeCheck(i) =>
      LET e  == trace[i]
          th == TierThreshold(e.level)
      IN /\ e.outcome = "too_small" <=> SourceTotal(i) < th
         /\ SourceTotal(i) = th =>
              /\ e.outcome = "created" /\ e.appended = 1
              /\ \E k \in 1..Len(e.calls) : e.calls[k].op = "export"
         /\ SourceTotal(i) = th - 1 => e.outcome = "too_small" /\ e.appended = 0
         /\ (e.outcome = "created" /\ RatLT(e.ratio, One)) =>
              \A j \in 1..Len(fs[e.input].objs) :
                LET o == fs[e.input].objs[j]
                IN (o.type = "MESH" /\ o.verts = skip_threshold) =>
                     \E k \in 1..Len(e.calls) :
                       e.calls[k].op = "decimate" /\ e.calls[k].verts = skip_threshold

\* a tier-1 asset of exactly skip_threshold vertices has been decimated and
\* exported
C12_Witness ==
  /\ pipeline = "bake"
  /\ \E i \in 1..Len(trace) :
       /\ ReachedSizeCheck(i)
       /\ trace[i].level = L_lod1
       /\ SourceTotal(i) = skip_threshold
       /\ trace[i].outcome = "created"
       /\ \E k \in 1..Len(trace[i].calls) : trace[i].calls[k].op = "decimate"

\* the step appends an entry for an asset skipped as too small
TooSmallStep ==
  /\ pipeline = "bake"
  /\ Len(trace') = Len(trace) + 1
  /\ trace'[Len(trace')].outcome = "too_small"

\* C13: when an asset is skipped as too small no mutation is performed for
\* it: the engine's decimate and export are never invoked for that item, no
\* file is created or changed, and no Result is appended.
C13_TooSmallNoMutation ==
  [][TooSmallStep =>
       /\ fs' = fs
       /\ results' = results
       /\ \A k \in 1..Len(trace'[Len(trace')].calls) :
            trace'[Len(trace')].calls[k].op \notin {"decimate", "export"}]_vars

\* an asset has been imported and skipped as too small, and its output file
\* does not exist
C13_Witness ==
  /\ pipeline = "bake"
  /\ \E i \in 1..Len(trace) :
       /\ trace[i].outcome = "too_small"
       /\ \E k \in 1..Len(trace[i].calls) : trace[i].calls[k].op = "import"
       /\ trace[i].output \notin DOMAIN fs

\* a manifest line in the multi-level format path|tier|target_percent
IsRecordLine(line) == Contains(line, <<"|">>) /\ Len(Split(line, "|")) >= 3

\* a manifest line with a pipe and fewer than 3 fields
IsShortLine(line) == Contains(line, <<"|">>) /\ Len(Split(line, "|")) < 3

RecordLines == SelectSeq(manifest, IsRecordLine)

NumericRecords ==
  \A k \in 1..Len(RecordLines) : ~FloatRaises(Split(RecordLines[k], "|")[3])

OakEighth == <<"/", "p", "/", "t", "r", "e", "e", "s", "/", "o", "a", "k", ".", "g", "l", "b", "|", "l", "o", "d", "1", "|", "1", "2", ".", "5">>

\* the manifest has been read and no work item has been handled yet
ManifestLoaded == pipeline = "bake" /\ phase # "start" /\ trace = <<>>

\* C14: in multi-level mode each line path|tier|target_percent with a numeric
\* percentage yields one work item, in order, whose override ratio is
\* target_percent / 100 (12.5 gives 1/8), and a line with a pipe and fewer
\* than 3 fields yields no work item and raises nothing.
C14_ManifestParsing ==
  (ManifestLoaded /\ NumericRecords) =>
    /\ phase # "crashed"
    /\ (mode = "multi") <=> (RecordLines # <<>>)
    /\ mode = "multi" =>
         /\ Len(queue) = Len(RecordLines)
         /\ \A k \in 1..Len(RecordLines) :
              LET parts == Split(RecordLines[k], "|")
              IN /\ queue[k].path = parts[1]
                 /\ queue[k].level = parts[2]
                 /\ RatEq(RatMul(queue[k].target_percent, Rat(100, 1)), Float(parts[3]))
                 /\ RecordLines[k] = OakEighth => RatEq(queue[k].target_percent, Rat(1, 8))

\* a manifest with the 12.5 percent record and a two-field line has been
\* loaded: one work item of ratio 1/8
C14_Witness ==
  /\ ManifestLoaded /\ phase = "items" /\ mode = "multi"
  /\ \E k \in 1..Len(manifest) : IsShortLine(manifest[k])
  /\ Len(queue) = 1
  /\ queue[1].path = <<"/", "p", "/", "t", "r", "e", "e", "s", "/", "o", "a", "k", ".", "g", "l", "b">>
  /\ RatEq(queue[1].target_percent, Rat(1, 8))

\* a record line whose third field float() accepts
IsWellFormedLine(line) == IsRecordLine(line) /\ ~FloatRaises(Split(line, "|")[3])

WellFormedLines == SelectSeq(manifest, IsWellFormedLine)

\* C15: no manifest line is fatal to the batch: whatever the lines hold (no
\* pipe, fewer than 3 fields, a third field that is not a number), the run
\* goes on after the manifest is read, and every well-formed record of the
\* manifest is loaded as a work item.
C15_MalformedNeverFatal ==
  ManifestLoaded =>
    /\ phase # "crashed"
    /\ WellFormedLines # <<>> =>
         /\ mode = "multi"
         /\ Len(queue) = Len(WellFormedLines)
         /\ \A k \in 1..Len(WellFormedLines) :
              queue[k].path = Split(WellFormedLines[k], "|")[1]

\* a manifest line in the simple format: a path and no pipe
IsSimpleLine(line) == line # <<>> /\ ~Contains(line, <<"|">>)

SimpleLines == SelectSeq(manifest, IsSimpleLine)

\* the path lies under one of the configured input directories of a search root
UnderScanRoot(path) ==
  \E j \in 1..Len(cfg.input_dirs) :
    \E root \in {ProjectRoot} \cup ({cfg.temp_dir} \ {<<>>}) :
      StartsWith(path, root \o Slash \o cfg.input_dirs[j] \o Slash)

\* main() has chosen the input mode
ModeChosen == pipeline = "bake" /\ phase # "start" /\ NumericRecords

\* C16: the three input modes are mutually exclusive and chosen by the
\* precedence multi-level list > simple list > directory scan: with at least
\* one multi-level record only those records are handled (no simple line, no
\* directory), else with at least one simple path only those paths are
\* handled, else the directories are scanned.
C16_ModePrecedence ==
  ModeChosen =>
    /\ mode \in {"multi", "list", "scan"}
    /\ (mode = "multi") <=> (RecordLines # <<>>)
    /\ (mode = "list") <=> (RecordLines = <<>> /\ SimpleLines # <<>>)
    /\ (mode = "scan") <=> (RecordLines = <<>> /\ SimpleLines = <<>>)
    /\ mode = "multi" =>
         /\ dirs = <<>>
         /\ Len(trace) + Len(queue) = Len(RecordLines)
         /\ \A i \in 1..Len(trace) :
              \E k \in 1..Len(RecordLines) :
                /\ trace[i].item.path = Split(RecordLines[k], "|")[1]
                /\ trace[i].item.level = Split(RecordLines[k], "|")[2]
    /\ mode = "list" =>
         /\ dirs = <<>>
         /\ Len(trace) + Len(queue) = Len(SimpleLines)
         /\ \A i \in 1..Len(trace) :
              \E k \in 1..Len(SimpleLines) : trace[i].item = SimpleLines[k]
    /\ mode = "scan" =>
         \A i \in 1..Len(trace) : UnderScanRoot(trace[i].item)

\* a manifest with one multi-level record and one simple path has been run
\* to its summary: only the record was handled
C16_Witness ==
  /\ ModeChosen /\ phase = "done" /\ mode = "multi"
  /\ Len(RecordLines) = 1 /\ Len(SimpleLines) = 1
  /\ Len(trace) = 1
  /\ trace[1].item.path = Split(RecordLines[1], "|")[1]
  /\ trace[1].item.path # SimpleLines[1]

\* the ordered keyword rules of the classification
CategoryRules ==
  << <<<<"t", "r", "e", "e">>, "tree">>, <<<<"b", "u", "s", "h">>, "bush">>, <<<<"r", "o", "c", "k">>, "rock">>,
     <<<<"f", "e", "r", "n">>, "fern">>, <<<<"f", "l", "o", "w", "e", "r">>, "flower">>, <<<<"g", "r", "a", "s", "s">>, "grass">>,
     <<<<"m", "u", "s", "h", "r", "o", "o", "m">>, "mushroom">>, <<<<"i", "v", "y">>, "ivy">> >>

\* indices of the rules whose keyword occurs in the lowercased path
MatchingRules(path) ==
  {k \in 1..Len(CategoryRules) : Contains(Lower(path), CategoryRules[k][1])}

\* the category of the first matching rule
FirstMatch(path) ==
  IF MatchingRules(path) = {} THEN "default"
  ELSE LET k == CHOOSE m \in MatchingRules(path) : \A n \in MatchingRules(path) : m <= n
       IN IF CategoryRules[k][2] = "tree" /\ Contains(Lower(path), <<"f", "a", "l", "l", "e", "n">>)
          THEN "fallen"
          ELSE CategoryRules[k][2]

\* C17: the category of a path is the first match, on the lowercased path, of
\* the ordered rules tree (fallen when the path also contains "fallen"), bush,
\* rock, fern, flower, grass, mushroom, ivy, and "default" when none matches;
\* a path with both "tree" and "fallen" is "fallen" and with several keywords
\* the earlier rule wins.
C17_ClassifyFirstMatch ==
  \A i \in 1..Len(trace) :
    BakeResolved(i) =>
      LET e == trace[i]
      IN /\ e.category = FirstMatch(e.input)
         /\ e.category \in {"tree", "fallen", "bush", "rock", "fern", "flower",
                            "grass", "mushroom", "ivy", "default"}
         /\ (Contains(Lower(e.input), <<"t", "r", "e", "e">>) /\ Contains(Lower(e.input), <<"f", "a", "l", "l", "e", "n">>))
              => e.category = "fallen"
         /\ (MatchingRules(e.input) = {}) <=> (e.category = "default")

\* a path holding the keywords of two rules, one in upper case, has been
\* classified by the earlier rule
C17_Witness ==
  /\ pipeline = "bake"
  /\ \E i \in 1..Len(trace) :
       /\ BakeResolved(i)
       /\ Cardinality(MatchingRules(trace[i].input)) = 2
       /\ trace[i].input # Lower(trace[i].input)
       /\ trace[i].category = "bush"

\* the directories a scan may list, in loop order: for each input directory,
\* the project root and then the temp root
AllScanDirs ==
  Flatten([j \in 1..Len(BakeInputDirs) |->
             <<ProjectRoot \o Slash \o BakeInputDirs[j], TempRoot \o Slash \o BakeInputDirs[j]>>])

\* position, in loop order, of the scanned directory a path lies in
ScanRank(path) ==
  CHOOSE k \in 1..Len(AllScanDirs) : StartsWith(path, AllScanDirs[k] \o Slash)

Appended(e) == e.appended = 1

\* the handled items that produced a Result, in the order they were handled
AppendedEntries == SelectSeq(trace, Appended)

\* C18: the driver handles the work items strictly in loader order, each at
\* most once: manifest items in line order, scanned files directory by
\* directory and, within a directory, in the sorted order of their paths
\* (lexicographic, compared part by part); the Results are in the same
\* relative order as the items that produced them.
C18_LoaderOrder ==
  (pipeline = "bake" /\ phase # "start") =>
    /\ mode = "multi" =>
         /\ Len(trace) <= Len(RecordLines)
         /\ \A i \in 1..Len(trace) :
              /\ trace[i].item.path = Split(RecordLines[i], "|")[1]
              /\ trace[i].item.level = Split(RecordLines[i], "|")[2]
    /\ mode = "list" =>
         /\ Len(trace) <= Len(SimpleLines)
         /\ \A i \in 1..Len(trace) : trace[i].item = SimpleLines[i]
    /\ mode = "scan" =>
         \A i, j \in 1..Len(trace) :
           i < j =>
             \/ ScanRank(trace[i].item) < ScanRank(trace[j].item)
             \/ /\ ScanRank(trace[i].item) = ScanRank(trace[j].item)
                /\ PathLess(trace[i].item, trace[j].item)
    /\ Len(results) = Len(AppendedEntries)
    /\ \A k \in 1..Len(results) :
         /\ results[k].input = RelativeTo(AppendedEntries[k].input)
         /\ results[k].level = AppendedEntries[k].level

\* a scan has handled two files of one directory in sorted order and
\* reported both
C18_Witness ==
  /\ pipeline = "bake" /\ mode = "scan" /\ phase = "done"
  /\ Len(trace) = 2 /\ Len(results) = 2
  /\ ScanRank(trace[1].item) = ScanRank(trace[2].item)
  /\ PathLess(trace[1].item, trace[2].item)
  /\ results[1].input = RelativeTo(trace[1].input)
  /\ results[2].input = RelativeTo(trace[2].input)

\* the step handles one work item
ItemStep == Len(trace') = Len(trace) + 1

HasImport(e) == \E k \in 1..Len(e.calls) : e.calls[k].op = "import"

\* every import of the entry comes right after a clear of the scene
ClearedBeforeImport(e) ==
  \A k \in 1..Len(e.calls) :
    e.calls[k].op = "import" => (k > 1 /\ e.calls[k - 1].op = "clear")

\* C19 as stated: every import comes right after a clear, and once an item
\* has finished the scene is released before the next item starts or the
\* run ends.
C19_SceneReleasedAfterItem ==
  /\ \A i \in 1..Len(trace) : ClearedBeforeImport(trace[i])
  /\ (phase \in {"items", "done"} /\ trace # <<>>) => scene = EmptyScene

\* C19: every import comes right after a clear of the engine scene, whatever
\* happened to the earlier items, so after an import the scene holds the
\* objects of the imported asset only; an item handled without import leaves
\* the scene as it was (the scene is not released when an item finishes).
C19_ClearedBeforeEveryImport ==
  [][ItemStep =>
       LET e == trace'[Len(trace')]
       IN /\ ClearedBeforeImport(e)
          /\ HasImport(e) =>
               \/ scene'.objs = <<>>
               \/ Len(scene'.objs) = Len(fs[e.input].objs)
          /\ ~HasImport(e) => scene' = scene]_vars

\* a run has imported two assets, each after a clear, and has ended with
\* the objects of the second one still in the scene
C19_Witness ==
  /\ pipeline = "bake" /\ phase = "done"
  /\ Len(trace) = 2
  /\ \A i \in 1..2 :
       /\ HasImport(trace[i])
       /\ ClearedBeforeImport(trace[i])
       /\ fs[trace[i].input].objs # <<>>
  /\ scene # EmptyScene
  /\ Len(scene.objs) = Len(fs[trace[2].input].objs)
  /\ Len(fs[trace[1].input].objs) # Len(fs[trace[2].input].objs)

\* the calls of every item handled so far satisfy none of the listed
\* operations
NoCallOf(ops) ==
  \A i \in 1..Len(trace) :
    \A k \in 1..Len(trace[i].calls) : trace[i].calls[k].op \notin ops

\* C20 as stated: under --dry-run no pipeline invokes a transform
\* (decimation, triangulation, texture removal or resize) or an export for
\* any item, and no output file is written.
C20_DryRunNoTransform ==
  cfg.dry_run =>
    /\ NoCallOf({"decimate", "triangulate", "textures", "export"})
    /\ fs = fs0

\* C20: under --dry-run no pipeline invokes an export and no file is written
\* or changed; bake-lod, decimate-vrm and decimate-vegetation invoke no
\* transform either (optimize-avatars still transforms the imported scene in
\* memory).
C20_DryRunNoExport ==
  cfg.dry_run =>
    /\ NoCallOf({"export"})
    /\ fs = fs0
    /\ pipeline # "avatars" => NoCallOf({"decimate", "triangulate", "textures"})

\* a dry run of optimize-avatars has imported an avatar and decimated it in
\* memory without exporting or writing anything
C20_Witness ==
  /\ pipeline = "avatars" /\ cfg.dry_run /\ phase = "done"
  /\ \E i \in 1..Len(trace) :
       /\ HasImport(trace[i])
       /\ \E k \in 1..Len(trace[i].calls) : trace[i].calls[k].op = "decimate"
       /\ \E k \in 1..Len(trace[i].calls) : trace[i].calls[k].op = "triangulate"
  /\ NoCallOf({"export"})
  /\ fs = fs0

\* the engine raised while decimating a part of the item: a decimate was
\* invoked and the asset holds a mesh whose modifier_apply raises
PartDecimationFailed(e) ==
  /\ \E k \in 1..Len(e.calls) : e.calls[k].op = "decimate"
  /\ e.input \in DOMAIN fs
  /\ \E p \in 1..Len(fs[e.input].objs) :
       /\ fs[e.input].objs[p].type = "MESH"
       /\ ModifierApplyRaises(fs[e.input].objs[p])
       /\ \E k \in 1..Len(e.calls) :
            e.calls[k].op = "decimate" /\ e.calls[k].verts = fs[e.input].objs[p].verts

\* C21: when the engine raises while decimating one mesh part, the failure
\* does not abort the asset: no exception leaves the item, the asset is still
\* exported (unless --dry-run is set) and the run goes on.
C21_PartFailureNotFatal ==
  \A i \in 1..Len(trace) :
    PartDecimationFailed(trace[i]) =>
      /\ trace[i].raised = ""
      /\ ~cfg.dry_run => \E k \in 1..Len(trace[i].calls) : trace[i].calls[k].op = "export"
      /\ phase # "crashed"

\* an export of the item failed
ExportFailed(e) ==
  \E k \in 1..Len(e.calls) : e.calls[k].op = "export" /\ ExportRaises(e.calls[k].path)

\* position in the results list of the Result of the i-th handled item
ResultIndex(i) == Cardinality({j \in 1..i : trace[j].appended = 1})

\* C22: whenever an export of an asset fails, the asset's Result has status
\* error, never success, and the batch continues with the next asset.
C22_ExportFailureIsError ==
  \A i \in 1..Len(trace) :
    ExportFailed(trace[i]) =>
      /\ trace[i].raised = ""
      /\ phase # "crashed"
      /\ pipeline \in {"vrm", "avatars"} =>
           /\ trace[i].appended = 1
           /\ results[ResultIndex(i)].status = "error"

\* the processing of the item failed: its import or an export failed, or an
\* exception (of a decimation, an export or a path computation) left it
AssetFailed(e) ==
  \/ HasImport(e) /\ ImportRaises(fs, e.input)
  \/ ExportFailed(e)
  \/ e.raised # ""

\* the summary names the file among the failed ones, with a known reason
ListedAsFailed(rep, name) ==
  /\ "failed_files" \in DOMAIN rep
  /\ \E k \in 1..Len(rep.failed_files) :
       /\ rep.failed_files[k].file = name
       /\ rep.failed_files[k].error # "Unknown error"

\* C23: every run ends with a summary, and the summary lists every asset
\* whose import, decimation or export failed, with its file name and the
\* reason of the failure.
C23_FailuresListed ==
  /\ phase # "crashed"
  /\ phase = "done" =>
       \A i \in 1..Len(trace) :
         AssetFailed(trace[i]) => ListedAsFailed(report[1], PathName(trace[i].input))

IsTextureEntry(e) == pipeline = "avatars" /\ e.outcome = "textures"

\* the texture of that name among the textures the scene keeps
KeptAs(e, name) == {e.kept[k] : k \in {j \in 1..Len(e.kept) : e.kept[j].name = name}}

\* the texture is kept and fits the cap, untouched when it already did
ResizedTo(e, t, cap) ==
  \E k \in KeptAs(e, t.name) :
    /\ k.w <= cap /\ k.h <= cap
    /\ (t.w <= cap /\ t.h <= cap) => k = t

\* C24: the decision table applied per texture by role: metallic, roughness,
\* ao and unknown textures are removed; color textures are resized to the
\* color cap; normal textures to the normal cap; emissive textures are kept
\* and never resized.
C24_TextureDecisionTable ==
  \A i \in 1..Len(trace) :
    IsTextureEntry(trace[i]) =>
      \A p \in 1..Len(trace[i].before) :
        LET e == trace[i]
            t == e.before[p]
            role == categorize_texture(t)
        IN /\ role \in {"metallic", "roughness", "ao", "unknown"} =>
                /\ KeptAs(e, t.name) = {}
                /\ \E k \in 1..Len(e.removed) :
                     e.removed[k].name = t.name /\ e.removed[k].type = role
           /\ role = "color" => ResizedTo(e, t, color_max_size)
           /\ role = "normal" => ResizedTo(e, t, normal_max_size)
           /\ role = "emissive" => KeptAs(e, t.name) = {t}

\* the ordered rules on the name of the shader input
SocketRules ==
  << <<{<<"c", "o", "l", "o", "r">>, <<"b", "a", "s", "e">>, <<"d", "i", "f", "f", "u", "s", "e">>}, "color">>,
     <<{<<"n", "o", "r", "m", "a", "l">>}, "normal">>,
     <<{<<"m", "e", "t", "a", "l", "l", "i", "c">>, <<"m", "e", "t", "a", "l">>}, "metallic">>,
     <<{<<"r", "o", "u", "g", "h", "n", "e", "s", "s">>, <<"r", "o", "u", "g", "h">>}, "roughness">>,
     <<{<<"e", "m", "i", "s", "s", "i", "o", "n">>, <<"e", "m", "i", "s", "s", "i", "v", "e">>}, "emissive">>,
     <<{<<"o", "c", "c", "l", "u", "s", "i", "o", "n">>, <<"a", "o">>}, "ao">> >>

\* the ordered rules on the image file name
NameRules ==
  << <<{<<"_", "d">>, <<"d", "i", "f", "f", "u", "s", "e">>, <<"c", "o", "l", "o", "r">>, <<"a", "l", "b", "e", "d", "o">>, <<"b", "a", "s", "e">>}, "color">>,
     <<{<<"_", "n">>, <<"n", "o", "r", "m", "a", "l">>, <<"n", "o", "r", "m">>}, "normal">>,
     <<{<<"_", "m">>, <<"m", "e", "t", "a", "l">>, <<"m", "e", "t", "a", "l", "l", "i", "c">>}, "metallic">>,
     <<{<<"_", "r">>, <<"r", "o", "u", "g", "h">>, <<"r", "o", "u", "g", "h", "n", "e", "s", "s">>}, "roughness">> >>

\* role of the first rule one of whose words occurs in the lowercased
\* string, "unknown" when no rule matches
RoleBy(rules, str) ==
  LET hits == {k \in 1..Len(rules) : AnyIn(Lower(str), rules[k][1])}
  IN IF hits = {} THEN "unknown"
     ELSE rules[CHOOSE m \in hits : \A n \in hits : m <= n][2]

\* C25 as stated: a texture linked to a shader input gets its role from
\* that input's name alone, an unlinked texture from the file-name
\* vocabulary, and the role is unknown when the signal matches nothing.
C25_LinkedRoleFromInputAlone ==
  \A i \in 1..Len(trace) :
    IsTextureEntry(trace[i]) =>
      \A p \in 1..Len(trace[i].before) :
        LET t == trace[i].before[p]
        IN categorize_texture(t) =
             (IF t.socket # <<>> THEN RoleBy(SocketRules, t.socket)
              ELSE RoleBy(NameRules, t.name))

\* C25: the role of a texture is given by the name of the shader input it
\* is linked to when that name matches a role; otherwise (not linked, or
\* linked to an input whose name matches no role) by the file-name
\* vocabulary, and it is unknown when neither matches.
C25_RoleFromInputThenName ==
  \A i \in 1..Len(trace) :
    IsTextureEntry(trace[i]) =>
      \A p \in 1..Len(trace[i].before) :
        LET t == trace[i].before[p]
            e == trace[i]
            role == IF t.socket # <<>> /\ RoleBy(SocketRules, t.socket) # "unknown"
                    THEN RoleBy(SocketRules, t.socket)
                    ELSE RoleBy(NameRules, t.name)
        IN /\ categorize_texture(t) = role
           /\ role \in {"metallic", "roughness", "ao", "unknown"} <=> KeptAs(e, t.name) = {}
           /\ role \in {"metallic", "roughness", "ao", "unknown"} =>
                \E k \in 1..Len(e.removed) :
                  e.removed[k].name = t.name /\ e.removed[k].type = role

\* a texture linked to an input whose name matches no role has been
\* classified as color by its file name and kept
C25_Witness ==
  /\ pipeline = "avatars"
  /\ \E i \in 1..Len(trace) :
       /\ IsTextureEntry(trace[i])
       /\ trace[i].before[1].socket # <<>>
       /\ RoleBy(SocketRules, trace[i].before[1].socket) = "unknown"
       /\ categorize_texture(trace[i].before[1]) = "color"
       /\ KeptAs(trace[i], trace[i].before[1].name) # {}

\* C26: all derived-marker checks are the same predicate: for the stem of
\* every file, the directory-scan filter, the simple-list filter (the
\* per-file guard's test), the multi-level filter and the per-file guard of
\* bake-lod agree, the filters of the two avatar pipelines agree with each
\* other, and all of them agree on stems holding a "_lod" marker.
C26_SameMarkerPredicate ==
  \A p \in DOMAIN fs :
    LET stem == PathStem(p)
    IN /\ bake_scan_filter(stem) = bake_file_guard(stem)
       /\ bake_multi_filter(stem) = bake_file_guard(stem)
       /\ vrm_filter(stem) = av_filter(stem)
       /\ Contains(Lower(stem), M_lod) =>
            /\ bake_file_guard(stem) /\ bake_scan_filter(stem) /\ bake_multi_filter(stem)
            /\ vrm_filter(stem) /\ av_filter(stem)

\* an export of the item targets the path of its own source file
ExportsOverSource(e) ==
  \E k \in 1..Len(e.calls) : e.calls[k].op = "export" /\ e.calls[k].path = e.input

\* optimize-avatars writes into its input directory
AvatarsInPlace == pipeline = "avatars" /\ cfg.output_dir \in {<<>>, cfg.input_dir}

\* decimate-vegetation writes its single variant into the input directory
VegInPlace == pipeline = "veg" /\ cfg.in_place /\ Len(cfg.lod_ratios) = 1

ProducedByFirstRun(path) ==
  \/ path \notin DOMAIN fs0
  \/ /\ pipeline = "avatars"
     /\ \E k \in 1..Len(prevResults) :
          /\ prevResults[k].lod0 # <<>>
          /\ prevResults[k].lod0[1].path = path

\* C28: every file a pipeline writes carries a name its own input filter
\* rejects: the second run over the directory that now holds the outputs
\* takes no file the first run produced as a work item.
C28_OutputsNeverReprocessed ==
  run = 2 =>
    \A i \in 1..Len(trace) :
      HasImport(trace[i]) => ~ProducedByFirstRun(trace[i].input)

\* C29: in every pipeline the ratio handed to the engine's decimate operation
\* is within (0,1], whatever ratios the command line or the manifest give.
C29_EngineRatioInUnit ==
  \A i \in 1..Len(trace) :
    \A k \in 1..Len(trace[i].calls) :
      trace[i].calls[k].op = "decimate" =>
        /\ RatLT(Zero, trace[i].calls[k].ratio)
        /\ RatLE(trace[i].calls[k].ratio, One)

\* an entry of bake-lod reported as created, with its Result
CreatedResult(i) ==
  /\ BakeResolved(i)
  /\ trace[i].outcome = "created"
  /\ trace[i].appended = 1
  /\ "final_verts" \in DOMAIN results[ResultIndex(i)]

\* some mesh part of the source of entry i reaches the per-part threshold
SomePartReaches(i) ==
  \E k \in 1..Len(fs[trace[i].input].objs) :
    /\ fs[trace[i].input].objs[k].type = "MESH"
    /\ fs[trace[i].input].objs[k].verts >= skip_threshold

\* the asset-level threshold is that of the tier, and the parts handed to the
\* engine have at least skip_threshold vertices in both tiers
TierAndPartThresholds(i) ==
  /\ SourceTotal(i) >= TierThreshold(trace[i].level)
  /\ TierThreshold(L_lod1) = 200 /\ TierThreshold(L_lod2) = 100
  /\ \A k \in 1..Len(trace[i].calls) :
       trace[i].calls[k].op = "decimate" => trace[i].calls[k].verts >= 200

\* C30: in bake-lod the asset-level too-small threshold is 200 total vertices
\* for lod1 and 100 for lod2, a mesh part is decimated only when it has at
\* least 200 vertices in both tiers, and hence a Result reported as created has
\* final_verts < original_verts unless no part reached 200 vertices, in which
\* case final_verts = original_verts.
C30_CreatedShrinksUnlessNoPart ==
  \A i \in 1..Len(trace) :
    CreatedResult(i) =>
      /\ TierAndPartThresholds(i)
      /\ SomePartReaches(i) =>
           results[ResultIndex(i)].final_verts < results[ResultIndex(i)].original_verts
      /\ ~SomePartReaches(i) =>
           results[ResultIndex(i)].final_verts = results[ResultIndex(i)].original_verts

\* C30 amended: the thresholds are as stated; a Result reported as created has
\* final_verts < original_verts when some part reaches 200 vertices and the
\* resolved ratio is below 1; when no part reaches 200 vertices, or the
\* resolved ratio is 1 or more (an override of 100 percent or above), nothing
\* is decimated and final_verts = original_verts.
C30_CreatedShrinksUnlessNoPartOrFullRatio ==
  \A i \in 1..Len(trace) :
    CreatedResult(i) =>
      /\ TierAndPartThresholds(i)
      /\ (SomePartReaches(i) /\ RatLT(trace[i].ratio, One)) =>
           results[ResultIndex(i)].final_verts < results[ResultIndex(i)].original_verts
      /\ (~SomePartReaches(i) \/ RatLE(One, trace[i].ratio)) =>
           /\ results[ResultIndex(i)].final_verts = results[ResultIndex(i)].original_verts
           /\ DecCalls(trace[i]) = <<>>

\* a created variant of an asset whose parts all stay under 200 vertices,
\* exported with every vertex
C30_Witness ==
  \E i \in 1..Len(trace) :
    /\ CreatedResult(i)
    /\ ~SomePartReaches(i)
    /\ RatLT(trace[i].ratio, One)
    /\ results[ResultIndex(i)].final_verts = results[ResultIndex(i)].original_verts
    /\ results[ResultIndex(i)].original_verts >= 200

====
